---------------------------- MODULE Spec2Model ----------------------------
(***************************************************************************)
(* A model of the gameboard crate's rendering engine: Cell formatting,     *)
(* the dirty-tracking CellGrid, the Cursor overlay and the Board           *)
(* compositor (src/src/cell.rs, cell_grid.rs, cursor.rs, board.rs), driven *)
(* through the calls Game makes on its Board (src/src/game.rs).            *)
(*                                                                         *)
(* Strings are sequences of grapheme clusters, each a TLA+ string.  The    *)
(* escape byte 0x1b is the grapheme "ESC"; every directive of the terminal *)
(* layer is spelled out byte by byte, so the formatter sees a directive    *)
(* that is stored inside a cell exactly as it sees the text around it.     *)
(* Option<T> is a sequence: <<>> is None and <<v>> is Some(v).             *)
(* Position(column, row) is the pair <<column, row>>, zero-based.          *)
(***************************************************************************)
EXTENDS Integers, Sequences, FiniteSets, TLC

VARIABLES board, pc, ret, game

vars == <<board, pc, ret, game>>

(***************************************************************************)
(* Bounds of the model.                                                    *)
(***************************************************************************)
\* The grids are the single rows and single columns of up to MaxLine cells,
\* and the 2 x 2 square.
MaxLine == 2

\* The rectangles the formatter is tried on are of up to MaxWidth columns and
\* MaxHeight lines; its payloads are of up to MaxTokens tokens, a token being
\* a printable grapheme or a whole style directive.
MaxWidth == 3

MaxHeight == 3

MaxTokens == 4

(***************************************************************************)
(* Option, Position and small helpers.                                     *)
(***************************************************************************)
None == <<>>

Some(v) == <<v>>

Position(column, row) == <<column, row>>

Min(a, b) == IF a < b THEN a ELSE b

RECURSIVE Repeat(_, _)
Repeat(s, n) == IF n <= 0 THEN <<>> ELSE s \o Repeat(s, n - 1)

RECURSIVE Concat(_)
Concat(ss) == IF ss = <<>> THEN <<>> ELSE Head(ss) \o Concat(Tail(ss))

DigitChars == <<"0", "1", "2", "3", "4", "5", "6", "7", "8", "9">>

RECURSIVE Decimal(_)
Decimal(n) ==
    IF n < 10 THEN <<DigitChars[n + 1]>>
    ELSE Decimal(n \div 10) \o <<DigitChars[(n % 10) + 1]>>

(***************************************************************************)
(* Terminal directives (termion), byte by byte.                            *)
(***************************************************************************)
ESC == "ESC"

\* cursor::Goto(x, y): ESC [ y ; x H, one-based.
Goto(x, y) == <<ESC, "[">> \o Decimal(y) \o <<";">> \o Decimal(x) \o <<"H">>

\* style::Reset: ESC [ m.
StyleReset == <<ESC, "[", "m">>

\* color::Bg(color::Rgb(r, g, b)): ESC [ 48 ; 2 ; r ; g ; b m.  The cursor's
\* background is Rgb(0, 0, 200), the colour of the crate's examples.
ColorBg ==
    <<ESC, "[", "4", "8", ";", "2", ";", "0", ";", "0", ";", "2", "0", "0", "m">>

(***************************************************************************)
(* Cell (src/src/cell.rs).                                                 *)
(***************************************************************************)
Empty == [kind |-> "Empty"]

Char(c) == [kind |-> "Char", ch |-> c]

ResourceId(id) == [kind |-> "ResourceId", id |-> id]

Content(s) == [kind |-> "Content", s |-> s]

\* A ResourceId cell cannot be rendered: no table, or no such key (&rt[id]).
ResourcePanics(cell, resources) ==
    /\ cell.kind = "ResourceId"
    /\ \/ resources = None
       \/ cell.id \notin DOMAIN resources[1]

\* Cell::prepare_str_from_char
prepare_str_from_char(content, width, height, x, y) ==
    Concat([h \in 1..height |-> Goto(x, y + h - 1) \o Repeat(<<content>>, width)])

\* A scan that counts every grapheme toward the width, those of a directive
\* too.
RECURSIVE ScanLine_counting_escapes(_, _, _, _, _)
ScanLine_counting_escapes(content, width, i, ch_count, is_csi) ==
    IF i > Len(content) THEN [found |-> FALSE, cut |-> i]
    ELSE IF ch_count + 1 = width THEN [found |-> TRUE, cut |-> i]
    ELSE ScanLine_counting_escapes(content, width, i + 1, ch_count + 1, is_csi)

\* The for loop of Cell::prepare_str from grapheme i on, up to the grapheme
\* that completes the current line: the index of that grapheme, or found =
\* FALSE when the content ends first.
RECURSIVE ScanLine(_, _, _, _, _)
ScanLine(content, width, i, ch_count, is_csi) ==
    IF i > Len(content) THEN [found |-> FALSE, cut |-> i]
    ELSE IF content[i] = ESC THEN ScanLine(content, width, i + 1, ch_count, TRUE)
    ELSE IF is_csi /\ content[i] = "m"
    THEN ScanLine(content, width, i + 1, ch_count, FALSE)
    ELSE IF ~is_csi
    THEN IF ch_count + 1 = width THEN [found |-> TRUE, cut |-> i]
         ELSE ScanLine(content, width, i + 1, ch_count + 1, is_csi)
    ELSE ScanLine(content, width, i + 1, ch_count, is_csi)

\* A loop that positions for a next line after the last line as well.
RECURSIVE PrepareStrLoop_positioning_after_last(_, _, _, _, _, _, _)
PrepareStrLoop_positioning_after_last(content, width, x, line_start, y, height, res) ==
    LET scan == ScanLine(content, width, line_start, 0, FALSE)
        line == res \o SubSeq(content, line_start, scan.cut) \o Goto(x, y + 1)
    IN  IF ~scan.found THEN res
        ELSE IF height - 1 > 0
        THEN PrepareStrLoop_positioning_after_last(content, width, x, scan.cut + 1,
                                                   y + 1, height - 1, line)
        ELSE line

\* A loop that does not stop after height lines: it goes on for as long as
\* the content completes lines.
RECURSIVE PrepareStrLoop_without_break(_, _, _, _, _, _, _)
PrepareStrLoop_without_break(content, width, x, line_start, y, height, res) ==
    LET scan == ScanLine(content, width, line_start, 0, FALSE)
        line == res \o SubSeq(content, line_start, scan.cut)
    IN  IF ~scan.found THEN res
        ELSE PrepareStrLoop_without_break(content, width, x, scan.cut + 1, y + 1,
                                          height - 1, line \o Goto(x, y + 1))

\* The for loop of Cell::prepare_str, line by line: a completed line is
\* pushed with what precedes it since line_start, then the next Goto, until
\* height lines are out (break) or the content ends.  Text after the last
\* completed line is not pushed.
RECURSIVE PrepareStrLoop(_, _, _, _, _, _, _)
PrepareStrLoop(content, width, x, line_start, y, height, res) ==
    LET scan == ScanLine(content, width, line_start, 0, FALSE)
        line == res \o SubSeq(content, line_start, scan.cut)
    IN  IF ~scan.found THEN res
        ELSE IF height - 1 > 0
        THEN PrepareStrLoop(content, width, x, scan.cut + 1, y + 1, height - 1,
                            line \o Goto(x, y + 1))
        ELSE line

\* A prepare_str that appends no style reset.
prepare_str_without_reset(content, width, height, x, y) ==
    PrepareStrLoop(content, width, x, 1, y, height, Goto(x, y))

\* Cell::prepare_str
prepare_str(content, width, height, x, y) ==
    PrepareStrLoop(content, width, x, 1, y, height, Goto(x, y)) \o StyleReset

\* Cell::get_content, for a cell that does not panic.
get_content(cell, width, height, x, y, resources) ==
    CASE cell.kind = "Empty" -> prepare_str_from_char(" ", width, height, x, y)
      [] cell.kind = "Char" -> prepare_str_from_char(cell.ch, width, height, x, y)
      [] cell.kind = "ResourceId" ->
            prepare_str(resources[1][cell.id], width, height, x, y)
      [] cell.kind = "Content" -> prepare_str(cell.s, width, height, x, y)

\* Cell::add_value_to_str, the text it pushes, for a cell that does not panic.
add_value_to_str(cell, resources) ==
    CASE cell.kind = "Empty" -> <<" ">>
      [] cell.kind = "Char" -> <<cell.ch>>
      [] cell.kind = "ResourceId" -> resources[1][cell.id] \o StyleReset
      [] cell.kind = "Content" -> cell.s \o StyleReset

\* A with_bg_color that fills one line of the rectangle, width copies, for
\* an Empty or Char cell.
with_bg_color_filling_one_line(cell, width, height, resources) ==
    CASE cell.kind = "Empty" -> Content(ColorBg \o Repeat(<<" ">>, width))
      [] cell.kind = "Char" -> Content(ColorBg \o Repeat(<<cell.ch>>, width))
      [] cell.kind = "ResourceId" -> Content(ColorBg \o resources[1][cell.id])
      [] cell.kind = "Content" -> Content(ColorBg \o cell.s)

\* Cell::with_bg_color, for a cell that does not panic.
with_bg_color(cell, width, height, resources) ==
    CASE cell.kind = "Empty" -> Content(ColorBg \o Repeat(<<" ">>, width * height))
      [] cell.kind = "Char" ->
            Content(ColorBg \o Repeat(<<cell.ch>>, width * height))
      [] cell.kind = "ResourceId" -> Content(ColorBg \o resources[1][cell.id])
      [] cell.kind = "Content" -> Content(ColorBg \o cell.s)

(***************************************************************************)
(* CellGrid (src/src/cell_grid.rs).  cells is one-based here: the cell of  *)
(* index i is cells[i + 1]; updates holds the code's zero-based indices.   *)
(***************************************************************************)
\* CellGrid::new
CellGrid_new(columns, rows, cell_width, cell_height, resources) ==
    [_rows |-> rows, columns |-> columns,
     cell_width |-> cell_width, cell_height |-> cell_height,
     cells |-> [i \in 1..(columns * rows) |-> Empty],
     resources |-> resources,
     update_all |-> TRUE,
     updates |-> {}]

\* An init_from_vec that stores the cells last to first.
CellGrid_init_from_vec_reversed(grid, cells) ==
    [grid EXCEPT !.cells = [i \in 1..Len(cells) |-> cells[Len(cells) + 1 - i]],
                 !.update_all = TRUE]

\* CellGrid::init_from_vec
CellGrid_init_from_vec(grid, cells) ==
    [grid EXCEPT !.cells = cells, !.update_all = TRUE]

\* CellGrid::init_from_str: one Char cell per code point of the string.
CellGrid_init_from_str(grid, str) ==
    [grid EXCEPT !.cells = [i \in 1..Len(grid.cells) |->
                               IF i <= Len(str) THEN Char(str[i]) ELSE grid.cells[i]],
                 !.update_all = TRUE]

\* CellGrid::iter: the cells in the order of the vector.
CellGrid_iter(grid) == grid.cells

\* CellGrid::has_updates
has_updates(grid) == grid.update_all \/ Cardinality(grid.updates) > 0

\* CellGrid::need_update_all
need_update_all(grid) == grid.update_all

\* An update_complete that forgets the dirty set and keeps the flag.
update_complete_keeping_flag(grid) == [grid EXCEPT !.updates = {}]

\* CellGrid::update_complete
update_complete(grid) == [grid EXCEPT !.updates = {}, !.update_all = FALSE]

\* CellGrid::get_cell_pos
get_cell_pos(grid, pos) == pos[2] * grid.columns + pos[1]

\* self.cells[pos] panics when pos is not an index of the vector.
IndexPanics(grid, idx) == idx >= Len(grid.cells)

\* An update_cell that replaces the cell and does not mark it dirty.
update_cell_unmarked(grid, cell, pos) ==
    [grid EXCEPT !.cells[get_cell_pos(grid, pos) + 1] = cell]

\* An update_cell that replaces the cell and marks every cell of the grid.
update_cell_marking_all(grid, cell, pos) ==
    [grid EXCEPT !.cells[get_cell_pos(grid, pos) + 1] = cell,
                 !.updates = 0..(Len(grid.cells) - 1)]

\* CellGrid::update_cell
update_cell(grid, cell, pos) ==
    LET idx == get_cell_pos(grid, pos)
    IN  [grid EXCEPT !.cells[idx + 1] = cell, !.updates = @ \cup {idx}]

\* CellGrid::update_cells: the batch in order.  An index outside the vector
\* panics with the earlier updates of the batch already applied.
RECURSIVE CellGrid_update_cells(_, _)
CellGrid_update_cells(grid, updates) ==
    IF updates = <<>> THEN [grid |-> grid, panicked |-> FALSE]
    ELSE IF IndexPanics(grid, get_cell_pos(grid, Head(updates)[2]))
    THEN [grid |-> grid, panicked |-> TRUE]
    ELSE CellGrid_update_cells(update_cell(grid, Head(updates)[1], Head(updates)[2]),
                               Tail(updates))

\* update_cell_bg_color panics on an index outside the vector and when the
\* cell there is a ResourceId that cannot be resolved (Cell::with_bg_color).
BgColorPanics(grid, pos) ==
    \/ IndexPanics(grid, get_cell_pos(grid, pos))
    \/ ResourcePanics(grid.cells[get_cell_pos(grid, pos) + 1], grid.resources)

\* An update_cell_bg_color that highlights the cell and does not mark it.
update_cell_bg_color_unmarked(grid, pos) ==
    [grid EXCEPT !.cells[get_cell_pos(grid, pos) + 1] =
                     with_bg_color(grid.cells[get_cell_pos(grid, pos) + 1],
                                   grid.cell_width, grid.cell_height,
                                   grid.resources)]

\* CellGrid::update_cell_bg_color: the grid it leaves.
update_cell_bg_color(grid, pos) ==
    LET idx == get_cell_pos(grid, pos)
    IN  [grid EXCEPT !.cells[idx + 1] =
                         with_bg_color(grid.cells[idx + 1], grid.cell_width,
                                       grid.cell_height, grid.resources),
                     !.updates = @ \cup {idx}]

\* CellGrid::update_cell_bg_color: the original cell it returns.
original_at(grid, pos) == grid.cells[get_cell_pos(grid, pos) + 1]

(***************************************************************************)
(* Cursor (src/src/cursor.rs).  The background is ColorBg and the key      *)
(* function is get_direction_default.                                      *)
(***************************************************************************)
NotHandled == [kind |-> "NotHandled"]

Consumed == [kind |-> "Consumed"]

NewPosition(pos) == [kind |-> "NewPosition", pos |-> pos]

\* Cursor::new
Cursor_new(position, wrap_around) ==
    [original_cell |-> Empty, position |-> position, wrap_around |-> wrap_around,
     rows |-> 0, columns |-> 0]

\* get_direction_default
get_direction_default(key) ==
    CASE key \in {"a", "Left"} -> Some("Left")
      [] key \in {"s", "Down"} -> Some("Down")
      [] key \in {"w", "Up"} -> Some("Up")
      [] key \in {"d", "Right"} -> Some("Right")
      [] OTHER -> None

\* What a cursor operation leaves: the cursor, the grid, the key result, and
\* whether it panicked on the way.
CursorOutcome(cursor, grid, result, panicked) ==
    [cursor |-> cursor, grid |-> grid, result |-> result, panicked |-> panicked]

\* Cursor::init
Cursor_init(cursor, rows, columns, grid) ==
    LET sized == [cursor EXCEPT !.rows = rows, !.columns = columns]
    IN  IF BgColorPanics(grid, sized.position)
        THEN CursorOutcome(sized, grid, NotHandled, TRUE)
        ELSE CursorOutcome([sized EXCEPT !.original_cell = original_at(grid, sized.position)],
                           update_cell_bg_color(grid, sized.position),
                           NotHandled, FALSE)

\* A check_updates that highlights the updated cell again and keeps the
\* original it remembered before the update.
check_updates_keeping_original(cursor, updates, grid) ==
    IF \E i \in 1..Len(updates) : updates[i][2] = cursor.position
    THEN CursorOutcome(cursor, update_cell_bg_color(grid, cursor.position),
                       NotHandled, FALSE)
    ELSE CursorOutcome(cursor, grid, NotHandled, FALSE)

\* Cursor::check_updates: the first update at the cursor's position triggers
\* one re-highlight of the cell the grid now holds there.
check_updates(cursor, updates, grid) ==
    IF \E i \in 1..Len(updates) : updates[i][2] = cursor.position
    THEN IF BgColorPanics(grid, cursor.position)
         THEN CursorOutcome(cursor, grid, NotHandled, TRUE)
         ELSE CursorOutcome([cursor EXCEPT !.original_cell =
                                               original_at(grid, cursor.position)],
                            update_cell_bg_color(grid, cursor.position),
                            NotHandled, FALSE)
    ELSE CursorOutcome(cursor, grid, NotHandled, FALSE)

\* A move_cursor that does not write the original back to the old position.
move_cursor_without_restore(cursor, new_pos, grid) ==
    CursorOutcome([cursor EXCEPT !.position = new_pos,
                                 !.original_cell = original_at(grid, new_pos)],
                  update_cell_bg_color(grid, new_pos), NewPosition(new_pos), FALSE)

\* Cursor::move_cursor
move_cursor(cursor, new_pos, grid) ==
    IF IndexPanics(grid, get_cell_pos(grid, cursor.position))
    THEN CursorOutcome(cursor, grid, NotHandled, TRUE)
    ELSE LET restored == update_cell(grid, cursor.original_cell, cursor.position)
             moved == [cursor EXCEPT !.position = new_pos]
         IN  IF BgColorPanics(restored, new_pos)
             THEN CursorOutcome(moved, restored, NotHandled, TRUE)
             ELSE CursorOutcome([moved EXCEPT !.original_cell =
                                                  original_at(restored, new_pos)],
                                update_cell_bg_color(restored, new_pos),
                                NewPosition(new_pos), FALSE)

\* A left that, when blocked at the edge, marks the cursor's cell dirty.
left_marking_when_blocked(cursor, grid) ==
    LET x == cursor.position[1]
    IN  IF x = 0 /\ ~cursor.wrap_around
        THEN CursorOutcome(cursor,
                           [grid EXCEPT !.updates =
                                @ \cup {get_cell_pos(grid, cursor.position)}],
                           Consumed, FALSE)
        ELSE IF x = 0 /\ cursor.wrap_around
        THEN move_cursor(cursor, Position(cursor.columns - 1, cursor.position[2]), grid)
        ELSE move_cursor(cursor, Position(x - 1, cursor.position[2]), grid)

\* Cursor::left
left(cursor, grid) ==
    LET x == cursor.position[1]
    IN  IF x = 0 /\ ~cursor.wrap_around
        THEN CursorOutcome(cursor, grid, Consumed, FALSE)
        ELSE IF x = 0 /\ cursor.wrap_around
        THEN move_cursor(cursor, Position(cursor.columns - 1, cursor.position[2]), grid)
        ELSE move_cursor(cursor, Position(x - 1, cursor.position[2]), grid)

\* Cursor::right
right(cursor, grid) ==
    LET x == cursor.position[1]
    IN  IF x = cursor.columns - 1 /\ ~cursor.wrap_around
        THEN CursorOutcome(cursor, grid, Consumed, FALSE)
        ELSE IF x = cursor.columns - 1 /\ cursor.wrap_around
        THEN move_cursor(cursor, Position(0, cursor.position[2]), grid)
        ELSE move_cursor(cursor, Position(x + 1, cursor.position[2]), grid)

\* An up that wraps to the row numbered after the columns of the grid.
up_wrapping_by_columns(cursor, grid) ==
    LET y == cursor.position[2]
    IN  IF y = 0 /\ ~cursor.wrap_around
        THEN CursorOutcome(cursor, grid, Consumed, FALSE)
        ELSE IF y = 0 /\ cursor.wrap_around
        THEN move_cursor(cursor, Position(cursor.position[1], cursor.columns - 1), grid)
        ELSE move_cursor(cursor, Position(cursor.position[1], y - 1), grid)

\* Cursor::up
up(cursor, grid) ==
    LET y == cursor.position[2]
    IN  IF y = 0 /\ ~cursor.wrap_around
        THEN CursorOutcome(cursor, grid, Consumed, FALSE)
        ELSE IF y = 0 /\ cursor.wrap_around
        THEN move_cursor(cursor, Position(cursor.position[1], cursor.rows - 1), grid)
        ELSE move_cursor(cursor, Position(cursor.position[1], y - 1), grid)

\* Cursor::down
down(cursor, grid) ==
    LET y == cursor.position[2]
    IN  IF y = cursor.rows - 1 /\ ~cursor.wrap_around
        THEN CursorOutcome(cursor, grid, Consumed, FALSE)
        ELSE IF y = cursor.rows - 1 /\ cursor.wrap_around
        THEN move_cursor(cursor, Position(cursor.position[1], 0), grid)
        ELSE move_cursor(cursor, Position(cursor.position[1], y + 1), grid)

\* Cursor::handle_key
Cursor_handle_key(cursor, key, grid) ==
    LET dir == get_direction_default(key)
    IN  CASE dir = Some("Left") -> left(cursor, grid)
          [] dir = Some("Right") -> right(cursor, grid)
          [] dir = Some("Up") -> up(cursor, grid)
          [] dir = Some("Down") -> down(cursor, grid)
          [] OTHER -> CursorOutcome(cursor, grid, NotHandled, FALSE)

(***************************************************************************)
(* Border glyphs (src/src/chars.rs), one grapheme each.                     *)
(***************************************************************************)
DOUBLE_BORDER_HOR_LINE == "D-"

DOUBLE_BORDER_VERT_LINE == "D|"

DOUBLE_BORDER_TOP_LEFT == "DTL"

DOUBLE_BORDER_TOP_RIGHT == "DTR"

DOUBLE_BORDER_BOTTOM_LEFT == "DBL"

DOUBLE_BORDER_BOTTOM_RIGHT == "DBR"

DOUBLE_BORDER_JOIN_LEFT == "DJL"

DOUBLE_BORDER_JOIN_RIGHT == "DJR"

DOUBLE_BORDER_JOIN_UP == "DJU"

DOUBLE_BORDER_JOIN_DOWN == "DJD"

SINGLE_BORDER_HOR_LINE == "S-"

SINGLE_BORDER_VERT_LINE == "S|"

SINGLE_BORDER_CROSS == "S+"

(***************************************************************************)
(* String helpers (src/src/str_utils.rs).                                  *)
(***************************************************************************)
\* str_utils::get_str_len
get_str_len(text) == Len(text)

\* str_utils::get_str_range, for a text that has a grapheme at start and
\* end > start: the graphemes start .. end - 1, or the rest of the text.
get_str_range(text, start, end) ==
    IF end < Len(text) THEN SubSeq(text, start + 1, end)
    ELSE SubSeq(text, start + 1, Len(text))

(***************************************************************************)
(* Board (src/src/board.rs).                                               *)
(***************************************************************************)
TEXT_ALIGN_CENTER == <<"|", "^", "|">>

TEXT_ALIGN_RIGHT == <<"|", ">", "|">>

\* What a Board operation leaves: the board, the value it returned, and
\* whether it panicked (the board is then the memory at the panic).
Outcome(b, r) == [board |-> b, ret |-> r, panicked |-> FALSE]

Panic(b, msg) == [board |-> b, ret |-> msg, panicked |-> TRUE]

Unit == "()"

\* Board::new
Board_new(width, height, cell_width, cell_height, cell_borders, resources) ==
    LET w_borders == IF cell_borders THEN 2 + (width - 1) ELSE 2
        h_borders == IF cell_borders THEN 2 + (height - 1) ELSE 2
    IN  [position |-> Position(1, 1),
         width |-> width * cell_width + w_borders,
         height |-> height * cell_height + h_borders,
         rows |-> height,
         columns |-> width,
         cell_width |-> cell_width,
         cell_height |-> cell_height,
         cell_borders |-> cell_borders,
         grid |-> CellGrid_new(width, height, cell_width, cell_height, resources),
         resources |-> resources,
         cursor |-> None,
         message_lines |-> None,
         update_all |-> FALSE]

\* Board::add_cursor
add_cursor(b, cursor) ==
    IF cursor # None
    THEN LET o == Cursor_init(cursor[1], b.rows, b.columns, b.grid)
         IN  IF o.panicked
             THEN Panic(b, "cursor init")
             ELSE Outcome([b EXCEPT !.grid = o.grid, !.cursor = Some(o.cursor)], Unit)
    ELSE Outcome(b, Unit)

\* An init_from_vec that counts the cells after it has taken them.
Board_init_from_vec_counting_late(b, cells, cursor) ==
    IF Len(cells) # b.rows * b.columns
    THEN Panic([b EXCEPT !.grid = CellGrid_init_from_vec(b.grid, cells)],
               "Invalid number of cells.")
    ELSE add_cursor([b EXCEPT !.grid = CellGrid_init_from_vec(b.grid, cells)], cursor)

\* Board::init_from_vec
Board_init_from_vec(b, cells, cursor) ==
    IF Len(cells) # b.rows * b.columns
    THEN Panic(b, "Invalid number of cells.")
    ELSE add_cursor([b EXCEPT !.grid = CellGrid_init_from_vec(b.grid, cells)], cursor)

\* Board::init_from_str
Board_init_from_str(b, str, cursor) ==
    IF Len(str) # b.rows * b.columns
    THEN Panic(b, "Invalid number of cells.")
    ELSE IF b.cell_width # 1 /\ b.cell_height # 1
    THEN Panic(b, "You can initialize cells from string for board with 1x1 cells only.")
    ELSE add_cursor([b EXCEPT !.grid = CellGrid_init_from_str(b.grid, str)], cursor)

\* Board::set_position
set_position(b, pos) == [b EXCEPT !.position = pos]

\* Board::get_border_char
get_border_char(b, w, h) ==
    LET h_cell_border == h % (b.cell_height + 1) = 0
        v_cell_border == w % (b.cell_width + 1) = 0
    IN  IF w = 0 /\ h = 0 THEN Some(DOUBLE_BORDER_TOP_LEFT)
        ELSE IF w = b.width - 1 /\ h = 0 THEN Some(DOUBLE_BORDER_TOP_RIGHT)
        ELSE IF w = 0 /\ h = b.height - 1 THEN Some(DOUBLE_BORDER_BOTTOM_LEFT)
        ELSE IF w = b.width - 1 /\ h = b.height - 1
        THEN Some(DOUBLE_BORDER_BOTTOM_RIGHT)
        ELSE IF h = 0
        THEN IF b.cell_borders /\ v_cell_border
             THEN Some(DOUBLE_BORDER_JOIN_UP) ELSE Some(DOUBLE_BORDER_HOR_LINE)
        ELSE IF h = b.height - 1
        THEN IF b.cell_borders /\ v_cell_border
             THEN Some(DOUBLE_BORDER_JOIN_DOWN) ELSE Some(DOUBLE_BORDER_HOR_LINE)
        ELSE IF w = 0
        THEN IF b.cell_borders /\ h_cell_border
             THEN Some(DOUBLE_BORDER_JOIN_LEFT) ELSE Some(DOUBLE_BORDER_VERT_LINE)
        ELSE IF w = b.width - 1
        THEN IF b.cell_borders /\ h_cell_border
             THEN Some(DOUBLE_BORDER_JOIN_RIGHT) ELSE Some(DOUBLE_BORDER_VERT_LINE)
        ELSE IF b.cell_borders
        THEN IF h_cell_border /\ v_cell_border THEN Some(SINGLE_BORDER_CROSS)
             ELSE IF h_cell_border THEN Some(SINGLE_BORDER_HOR_LINE)
             ELSE IF v_cell_border THEN Some(SINGLE_BORDER_VERT_LINE)
             ELSE None
        ELSE None

\* Board::get_border
get_border(b) ==
    Concat([h \in 1..b.height |->
              Goto(b.position[1], b.position[2] + h - 1)
              \o [w \in 1..b.width |->
                     IF get_border_char(b, w - 1, h - 1) # None
                     THEN get_border_char(b, w - 1, h - 1)[1]
                     ELSE " "]])

\* A get_cell_top_left that steps by the cell size alone, lines between the
\* cells or not.
get_cell_top_left_ignoring_borders(b, pos) ==
    <<b.position[1] + 1 + (pos % b.columns) * b.cell_width,
      b.position[2] + 1 + (pos \div b.columns) * b.cell_height>>

\* A get_cell_top_left that counts from the frame's corner, not from the
\* first coordinate inside the frame.
get_cell_top_left_from_origin(b, pos) ==
    LET step_x == IF b.cell_borders THEN b.cell_width + 1 ELSE b.cell_width
        step_y == IF b.cell_borders THEN b.cell_height + 1 ELSE b.cell_height
    IN  <<b.position[1] + (pos % b.columns) * step_x,
          b.position[2] + (pos \div b.columns) * step_y>>

\* Board::get_cell_top_left
get_cell_top_left(b, pos) ==
    LET start_x == b.position[1] + 1
        start_y == b.position[2] + 1
        step_x == IF b.cell_borders THEN b.cell_width + 1 ELSE b.cell_width
        step_y == IF b.cell_borders THEN b.cell_height + 1 ELSE b.cell_height
    IN  <<start_x + (pos % b.columns) * step_x,
          start_y + (pos \div b.columns) * step_y>>

\* A value cast to u16 (as u16), and u16 arithmetic that wraps.
U16(n) == ((n % 65536) + 65536) % 65536

\* The longest line of a non-empty list of lines.
line_max_len(lines) ==
    CHOOSE m \in {get_str_len(lines[i]) : i \in 1..Len(lines)} :
        \A i \in 1..Len(lines) : get_str_len(lines[i]) <= m

starts_with(line, prefix) ==
    Len(line) >= Len(prefix) /\ SubSeq(line, 1, Len(prefix)) = prefix

\* The text of a dialog line without its alignment marker.
dialog_line_text(line) ==
    IF starts_with(line, TEXT_ALIGN_CENTER) \/ starts_with(line, TEXT_ALIGN_RIGHT)
    THEN SubSeq(line, Len(TEXT_ALIGN_CENTER) + 1, Len(line))
    ELSE line

\* A dialog line laid into inner columns (the if/else chain of the loop of
\* Board::get_message_dialog).  format! pads a shorter text; otherwise
\* get_str_range(ll, 0, inner) cuts it, and that call panics on an empty text
\* (nth(0) of nothing) and computes end - start - 1 = 0 - 1 when inner is 0:
\* a panic when overflow is checked, else nth(usize::MAX), the whole text.
dialog_line(line, inner, overflow_checks) ==
    LET ll == dialog_line_text(line)
        pad == inner - get_str_len(ll)
    IN  IF get_str_len(ll) < inner
        THEN [panicked |-> FALSE,
              s |-> IF starts_with(line, TEXT_ALIGN_CENTER)
                    THEN Repeat(<<" ">>, pad \div 2) \o ll
                         \o Repeat(<<" ">>, pad - (pad \div 2))
                    ELSE IF starts_with(line, TEXT_ALIGN_RIGHT)
                    THEN Repeat(<<" ">>, pad) \o ll
                    ELSE ll \o Repeat(<<" ">>, pad)]
        ELSE IF ll = <<>> THEN [panicked |-> TRUE, s |-> <<>>]
        ELSE IF inner = 0
        THEN [panicked |-> overflow_checks, s |-> ll]
        ELSE [panicked |-> FALSE, s |-> get_str_range(ll, 0, inner)]

\* Board::get_message_dialog.  self.width - 8 and self.height - 8 are usize
\* subtractions: below 8 they panic when the build checks overflow and wrap
\* to nearly 2^64 when it does not, so that min() keeps the other operand
\* and the centring offsets wrap as well (2^64 - d halves to 2^63 minus the
\* half of d rounded up, and 2^63 vanishes in the cast to u16).
get_message_dialog(b, overflow_checks) ==
    IF b.message_lines = None THEN [panicked |-> FALSE, text |-> None]
    ELSE LET msg_lines == b.message_lines[1]
         IN  IF msg_lines = <<>> THEN [panicked |-> TRUE, text |-> None]
             ELSE IF overflow_checks /\ (b.width < 8 \/ b.height < 8)
             THEN [panicked |-> TRUE, text |-> None]
             ELSE
    LET max_len == line_max_len(msg_lines)
        dlg_w == (IF b.width >= 8 THEN Min(max_len, b.width - 8) ELSE max_len) + 4
        dlg_h == (IF b.height >= 8 THEN Min(Len(msg_lines), b.height - 8)
                  ELSE Len(msg_lines)) + 4
        x == IF b.width >= dlg_w
             THEN U16(b.position[1] + (b.width - dlg_w) \div 2)
             ELSE U16(b.position[1] - ((dlg_w - b.width + 1) \div 2))
        y == IF b.height >= dlg_h
             THEN U16(b.position[2] + (b.height - dlg_h) \div 2)
             ELSE U16(b.position[2] - ((dlg_h - b.height + 1) \div 2))
        rows == [i \in 1..(dlg_h - 4) |->
                    dialog_line(msg_lines[i], dlg_w - 4, overflow_checks)]
        top == Goto(x, y) \o <<DOUBLE_BORDER_TOP_LEFT>>
               \o Repeat(<<DOUBLE_BORDER_HOR_LINE>>, dlg_w - 2)
               \o <<DOUBLE_BORDER_TOP_RIGHT>>
               \o Goto(x, U16(y + 1)) \o <<DOUBLE_BORDER_VERT_LINE>>
               \o Repeat(<<" ">>, dlg_w - 2) \o <<DOUBLE_BORDER_VERT_LINE>>
               \o Goto(x, U16(y + 2))
        body == Concat([i \in 1..(dlg_h - 4) |->
                    <<DOUBLE_BORDER_VERT_LINE, " ">> \o rows[i].s
                    \o <<" ", DOUBLE_BORDER_VERT_LINE>>
                    \o Goto(x, U16(y + 2 + i))])
        y_end == U16(y + 2 + (dlg_h - 4))
        bottom == <<DOUBLE_BORDER_VERT_LINE>> \o Repeat(<<" ">>, dlg_w - 2)
                  \o <<DOUBLE_BORDER_VERT_LINE>>
                  \o Goto(x, U16(y_end + 1)) \o <<DOUBLE_BORDER_BOTTOM_LEFT>>
                  \o Repeat(<<DOUBLE_BORDER_HOR_LINE>>, dlg_w - 2)
                  \o <<DOUBLE_BORDER_BOTTOM_RIGHT>>
    IN  IF \E i \in 1..(dlg_h - 4) : rows[i].panicked
        THEN [panicked |-> TRUE, text |-> None]
        ELSE [panicked |-> FALSE, text |-> Some(top \o body \o bottom)]

\* The orders in which a HashSet may yield its elements.
RECURSIVE Orders(_)
Orders(S) ==
    IF S = {} THEN {<<>>}
    ELSE UNION {{<<e>> \o o : o \in Orders(S \ {e})} : e \in S}

\* A linear scan that positions once, at the first cell, and not again at
\* the start of each row.
full_repaint_linear_positioned_once(b) ==
    Concat([i \in 1..Len(b.grid.cells) |->
              (IF i = 1
               THEN Goto(get_cell_top_left(b, i - 1)[1], get_cell_top_left(b, i - 1)[2])
               ELSE <<>>)
              \o add_value_to_str(b.grid.cells[i], b.resources)])

\* The linear scan of Board::get_updates for 1x1 cells without cell borders.
full_repaint_linear(b) ==
    Concat([i \in 1..Len(b.grid.cells) |->
              (IF (i - 1) % b.columns = 0
               THEN Goto(get_cell_top_left(b, i - 1)[1], get_cell_top_left(b, i - 1)[2])
               ELSE <<>>)
              \o add_value_to_str(b.grid.cells[i], b.resources)])

\* The per-cell full repaint of Board::get_updates.
full_repaint_cells(b) ==
    Concat([i \in 1..Len(b.grid.cells) |->
              get_content(b.grid.cells[i], b.cell_width, b.cell_height,
                          get_cell_top_left(b, i - 1)[1],
                          get_cell_top_left(b, i - 1)[2], b.resources)])

\* A sparse repaint that formats every cell of the grid.
sparse_repaint_of_all(b, order) ==
    Concat([i \in 1..Len(b.grid.cells) |->
              get_content(b.grid.cells[i], b.cell_width, b.cell_height,
                          get_cell_top_left(b, i - 1)[1],
                          get_cell_top_left(b, i - 1)[2], b.resources)])

\* The sparse repaint of Board::get_updates: the dirty cells in the order
\* the UpdatedIterator yields them.
sparse_repaint(b, order) ==
    Concat([k \in 1..Len(order) |->
              get_content(b.grid.cells[order[k] + 1], b.cell_width, b.cell_height,
                          get_cell_top_left(b, order[k])[1],
                          get_cell_top_left(b, order[k])[2], b.resources)])

\* The cells a repaint formats: all of them, or the dirty ones.
repaint_panics(b) ==
    \E i \in 1..Len(b.grid.cells) :
        /\ b.update_all \/ need_update_all(b.grid) \/ (i - 1) \in b.grid.updates
        /\ ResourcePanics(b.grid.cells[i], b.resources)

\* A get_updates that writes the border whenever it repaints every cell.
Board_get_updates_with_border(b, order, overflow_checks) ==
    LET msg_dlg == get_message_dialog(b, overflow_checks)
        update_all == b.update_all \/ need_update_all(b.grid)
        border == IF update_all THEN get_border(b) ELSE <<>>
        res == IF update_all /\ b.cell_width = 1 /\ b.cell_height = 1
                  /\ ~b.cell_borders
               THEN border \o full_repaint_linear(b)
               ELSE IF update_all THEN border \o full_repaint_cells(b)
               ELSE border \o sparse_repaint(b, order)
    IN  IF msg_dlg.panicked THEN Panic(b, "message dialog")
        ELSE IF msg_dlg.text # None THEN Outcome(b, msg_dlg.text)
        ELSE IF ~b.update_all /\ ~has_updates(b.grid) THEN Outcome(b, None)
        ELSE Outcome([b EXCEPT !.grid = update_complete(b.grid),
                               !.update_all = FALSE],
                     Some(res))

\* A get_updates that returns an empty output, and acknowledges the updates,
\* when a cell it has to format cannot be resolved.
Board_get_updates_skipping_unresolved(b, order, overflow_checks) ==
    LET msg_dlg == get_message_dialog(b, overflow_checks)
        update_all == b.update_all \/ need_update_all(b.grid)
        border == IF b.update_all THEN get_border(b) ELSE <<>>
        res == IF update_all /\ b.cell_width = 1 /\ b.cell_height = 1
                  /\ ~b.cell_borders
               THEN border \o full_repaint_linear(b)
               ELSE IF update_all THEN border \o full_repaint_cells(b)
               ELSE border \o sparse_repaint(b, order)
    IN  IF msg_dlg.panicked THEN Panic(b, "message dialog")
        ELSE IF msg_dlg.text # None THEN Outcome(b, msg_dlg.text)
        ELSE IF ~b.update_all /\ ~has_updates(b.grid) THEN Outcome(b, None)
        ELSE Outcome([b EXCEPT !.grid = update_complete(b.grid),
                               !.update_all = FALSE],
                     Some(IF repaint_panics(b) THEN <<>> ELSE res))

\* Board::get_updates.  order is the iteration order of the dirty set.
Board_get_updates(b, order, overflow_checks) ==
    LET msg_dlg == get_message_dialog(b, overflow_checks)
        update_all == b.update_all \/ need_update_all(b.grid)
        border == IF b.update_all THEN get_border(b) ELSE <<>>
        res == IF update_all /\ b.cell_width = 1 /\ b.cell_height = 1
                  /\ ~b.cell_borders
               THEN border \o full_repaint_linear(b)
               ELSE IF update_all THEN border \o full_repaint_cells(b)
               ELSE border \o sparse_repaint(b, order)
    IN  IF msg_dlg.panicked THEN Panic(b, "message dialog")
        ELSE IF msg_dlg.text # None THEN Outcome(b, msg_dlg.text)
        ELSE IF ~b.update_all /\ ~has_updates(b.grid) THEN Outcome(b, None)
        ELSE IF repaint_panics(b) THEN Panic(b, "resource table")
        ELSE Outcome([b EXCEPT !.grid = update_complete(b.grid),
                               !.update_all = FALSE],
                     Some(res))

\* An update_cells that lowers the structural flag: whatever repaint was
\* pending, the board is left with dirty cells only.
Board_update_cells_lowering_flag(b, updates) ==
    IF b.message_lines # None
    THEN Panic(b, "You can't update cells while message is open.")
    ELSE LET g == CellGrid_update_cells(b.grid, updates)
             o == check_updates(b.cursor[1], updates, g.grid)
         IN  IF b.cursor # None
             THEN Outcome([b EXCEPT !.grid = o.grid, !.cursor = Some(o.cursor),
                                    !.update_all = FALSE], Unit)
             ELSE Outcome([b EXCEPT !.grid = g.grid, !.update_all = FALSE], Unit)

\* An update_cells that applies the batch before it looks for the dialog.
Board_update_cells_then_check(b, updates) ==
    LET g == CellGrid_update_cells(b.grid, updates)
    IN  IF b.message_lines # None
        THEN Panic([b EXCEPT !.grid = g.grid],
                   "You can't update cells while message is open.")
        ELSE Outcome([b EXCEPT !.grid = g.grid], Unit)

\* Board::update_cells
Board_update_cells(b, updates) ==
    IF b.message_lines # None
    THEN Panic(b, "You can't update cells while message is open.")
    ELSE LET g == CellGrid_update_cells(b.grid, updates)
         IN  IF g.panicked THEN Panic([b EXCEPT !.grid = g.grid], "index out of bounds")
             ELSE IF b.cursor # None
             THEN LET o == check_updates(b.cursor[1], updates, g.grid)
                  IN  IF o.panicked
                      THEN Panic([b EXCEPT !.grid = g.grid], "resource table")
                      ELSE Outcome([b EXCEPT !.grid = o.grid,
                                             !.cursor = Some(o.cursor)], Unit)
             ELSE Outcome([b EXCEPT !.grid = g.grid], Unit)

\* Board::handle_key
Board_handle_key(b, key) ==
    IF b.cursor # None
    THEN LET o == Cursor_handle_key(b.cursor[1], key, b.grid)
             nb == [b EXCEPT !.grid = o.grid, !.cursor = Some(o.cursor)]
         IN  IF o.panicked THEN Panic(nb, "cursor move") ELSE Outcome(nb, o.result)
    ELSE Outcome(b, NotHandled)

\* A show_message that also acknowledges the pending updates of the grid.
Board_show_message_completing(b, lines) ==
    [b EXCEPT !.message_lines = Some(lines), !.grid = update_complete(b.grid)]

\* Board::show_message
Board_show_message(b, lines) == [b EXCEPT !.message_lines = Some(lines)]

\* A hide_message that closes the dialog and asks for no repaint.
Board_hide_message_without_repaint(b) == [b EXCEPT !.message_lines = None]

\* Board::hide_message
Board_hide_message(b) == [b EXCEPT !.message_lines = None, !.update_all = TRUE]

(***************************************************************************)
(* Game (src/src/game.rs): the calls it makes on its Board.                *)
(***************************************************************************)
SCREEN_TOP == 1

SCREEN_LEFT == 1

\* Game::new: the lifecycle fields of the Game, state and resume_key, and
\* its information area (info: Option<Info>).
Game_new == [state |-> "Created", resume_key |-> None, info |-> None]

\* What a lifecycle operation leaves: the fields, and whether it panicked.
GameOutcome(g, panicked) == [game |-> g, panicked |-> panicked]

\* The state check and the state change of Game::init.
Game_init_state(g) ==
    IF g.state # "Created" /\ g.state # "Stopped" THEN GameOutcome(g, TRUE)
    ELSE GameOutcome([g EXCEPT !.state = "Initialized"], FALSE)

\* The state check and the state change of Game::start.
Game_start_state(g) ==
    IF g.state # "Initialized" /\ g.state # "Stopped" THEN GameOutcome(g, TRUE)
    ELSE GameOutcome([g EXCEPT !.state = "Started"], FALSE)

\* A stop that stops a paused game as well.
Game_stop_when_paused(g) ==
    IF g.state # "Started" /\ g.state # "Paused" THEN GameOutcome(g, TRUE)
    ELSE GameOutcome([g EXCEPT !.state = "Stopped"], FALSE)

\* Game::stop
Game_stop(g) ==
    IF g.state # "Started" THEN GameOutcome(g, TRUE)
    ELSE GameOutcome([g EXCEPT !.state = "Stopped"], FALSE)

\* Game::pause
Game_pause(g, resume_key) ==
    IF g.state # "Started" THEN GameOutcome(g, TRUE)
    ELSE GameOutcome([g EXCEPT !.resume_key = Some(resume_key), !.state = "Paused"],
                     FALSE)

\* Game::resume
Game_resume(g) ==
    IF g.state # "Paused" THEN GameOutcome(g, TRUE)
    ELSE GameOutcome([g EXCEPT !.resume_key = None, !.state = "Started"], FALSE)

(***************************************************************************)
(* Info (src/src/info.rs) and Game::layout.  A grapheme cluster may hold   *)
(* more than one code point: COMBINED stands for a letter followed by a    *)
(* combining mark, one cluster of two code points.                         *)
(***************************************************************************)
COMBINED == "g:"

\* The code points (chars) of a grapheme cluster.
CodePoints(g) == IF g = COMBINED THEN 2 ELSE 1

\* str::chars().count()
RECURSIVE chars_count(_)
chars_count(text) ==
    IF text = <<>> THEN 0 ELSE CodePoints(Head(text)) + chars_count(Tail(text))

\* A padding that counts grapheme clusters.
format_width_by_graphemes(line, width) ==
    line \o Repeat(<<" ">>, width - Len(line))

\* format!("{:width$}", line): Formatter::pad appends spaces up to width
\* code points, and nothing when the text has that many or more.
format_width(line, width) ==
    line \o Repeat(<<" ">>, width - chars_count(line))

\* Info::new
Info_new(size, layout, lines) ==
    [position |-> Position(1, 1), width |-> 1, height |-> 1, size |-> size + 2,
     layout |-> layout, lines |-> lines]

\* Info::set_position_and_size
set_position_and_size(info, pos, w, h) ==
    [info EXCEPT !.position = pos, !.width = w, !.height = h]

\* Info::get_border, for an area of at least 2 x 2 characters.
Info_get_border(info) ==
    LET x == U16(info.position[1])
        y == U16(info.position[2])
    IN  Goto(x, y) \o <<DOUBLE_BORDER_TOP_LEFT>>
        \o Repeat(<<DOUBLE_BORDER_HOR_LINE>>, info.width - 2)
        \o <<DOUBLE_BORDER_TOP_RIGHT>> \o Goto(x, y + 1)
        \o Concat([i \in 1..(info.height - 2) |->
                     <<DOUBLE_BORDER_VERT_LINE>>
                     \o Goto(x + U16(info.width) - 1, y + i)
                     \o <<DOUBLE_BORDER_VERT_LINE>> \o Goto(x, y + i + 1)])
        \o <<DOUBLE_BORDER_BOTTOM_LEFT>>
        \o Repeat(<<DOUBLE_BORDER_HOR_LINE>>, info.width - 2)
        \o <<DOUBLE_BORDER_BOTTOM_RIGHT>>

\* One line of Info::get_updates laid into text_width columns: format! pads
\* a line of fewer graphemes; otherwise get_str_range(line, 0, text_width)
\* cuts it, and that call panics on an empty line (nth(0) of nothing) and
\* computes end - start - 1 = 0 - 1 when text_width is 0: a panic when
\* overflow is checked, else nth(usize::MAX), the whole line.
info_line(line, text_width, overflow_checks) ==
    IF get_str_len(line) < text_width
    THEN [panicked |-> FALSE, s |-> format_width(line, text_width)]
    ELSE IF line = <<>> THEN [panicked |-> TRUE, s |-> <<>>]
    ELSE IF text_width = 0 THEN [panicked |-> overflow_checks, s |-> line]
    ELSE [panicked |-> FALSE, s |-> get_str_range(line, 0, text_width)]

\* Info::get_updates, for an area laid out by Game::layout (width and height
\* at least 2).
Info_get_updates(info, overflow_checks) ==
    LET line_num == Len(info.lines)
        x == U16(info.position[1]) + 1
        y == U16(info.position[2]) + 1
        text_width == info.width - 2
        rows == [i \in 1..(info.height - 2) |->
                    IF i - 1 < line_num
                    THEN info_line(info.lines[i], text_width, overflow_checks)
                    ELSE [panicked |-> FALSE, s |-> Repeat(<<" ">>, text_width)]]
    IN  IF line_num = 0 THEN [panicked |-> FALSE, text |-> None]
        ELSE IF \E i \in 1..(info.height - 2) : rows[i].panicked
        THEN [panicked |-> TRUE, text |-> None]
        ELSE [panicked |-> FALSE,
              text |-> Some(Concat([i \in 1..(info.height - 2) |->
                                      Goto(x, y + i - 1) \o rows[i].s]))]

\* A layout that starts the board at the last column of a panel on its left.
Game_layout_overlapping(b, info) ==
    IF info = None
    THEN [board |-> set_position(b, Position(SCREEN_LEFT, SCREEN_TOP)), info |-> None]
    ELSE LET i_size == info[1].size
             placed(b_x, b_y, i_x, i_y, i_w, i_h) ==
                 [board |-> set_position(b, Position(b_x, b_y)),
                  info |-> Some(set_position_and_size(info[1], Position(i_x, i_y),
                                                      i_w, i_h))]
         IN  CASE info[1].layout = "Left" ->
                      placed(i_size, SCREEN_TOP, SCREEN_LEFT, SCREEN_TOP,
                             i_size, b.height)
               [] info[1].layout = "Right" ->
                      placed(SCREEN_LEFT, SCREEN_TOP, b.width + 1, SCREEN_TOP,
                             i_size, b.height)
               [] info[1].layout = "Top" ->
                      placed(SCREEN_LEFT, i_size + 1, SCREEN_LEFT, SCREEN_TOP,
                             b.width, i_size)
               [] info[1].layout = "Bottom" ->
                      placed(SCREEN_LEFT, SCREEN_TOP, SCREEN_LEFT, b.height + 1,
                             b.width, i_size)

\* Game::layout: the board and the information area it leaves.
Game_layout(b, info) ==
    IF info = None
    THEN [board |-> set_position(b, Position(SCREEN_LEFT, SCREEN_TOP)), info |-> None]
    ELSE LET i_size == info[1].size
             placed(b_x, b_y, i_x, i_y, i_w, i_h) ==
                 [board |-> set_position(b, Position(b_x, b_y)),
                  info |-> Some(set_position_and_size(info[1], Position(i_x, i_y),
                                                      i_w, i_h))]
         IN  CASE info[1].layout = "Left" ->
                      placed(i_size + 1, SCREEN_TOP, SCREEN_LEFT, SCREEN_TOP,
                             i_size, b.height)
               [] info[1].layout = "Right" ->
                      placed(SCREEN_LEFT, SCREEN_TOP, b.width + 1, SCREEN_TOP,
                             i_size, b.height)
               [] info[1].layout = "Top" ->
                      placed(SCREEN_LEFT, i_size + 1, SCREEN_LEFT, SCREEN_TOP,
                             b.width, i_size)
               [] info[1].layout = "Bottom" ->
                      placed(SCREEN_LEFT, SCREEN_TOP, SCREEN_LEFT, b.height + 1,
                             b.width, i_size)

(***************************************************************************)
(* Inputs.                                                                 *)
(***************************************************************************)
\* The grids <<columns, rows>>.
GridSizes ==
    {<<n, 1>> : n \in 1..MaxLine} \cup {<<1, n>> : n \in 1..MaxLine} \cup {<<2, 2>>}

\* Board::new arguments <<width, height, cell_width, cell_height, cell_borders>>:
\* every grid with 1x1 cells and no cell borders (the linear scan), the
\* grids of at most two cells with 2x1 cells between cell borders, and the
\* single cell of 7x7, the smallest board a dialog with text fits in.
BoardConfigs ==
    {<<g[1], g[2], 1, 1, FALSE>> : g \in GridSizes}
    \cup {<<1, 1, 2, 1, TRUE>>, <<2, 1, 2, 1, TRUE>>, <<1, 2, 2, 1, TRUE>>}
    \cup {<<1, 1, 7, 7, FALSE>>}

\* The cells a caller supplies.
CellValues == {Empty, Char("X")}

\* The positions of the grid.
Positions(b) == (0..(b.columns - 1)) \X (0..(b.rows - 1))

\* The cursors a caller attaches: any start position of the grid.
Cursors(b) == {Cursor_new(p, w) : p \in Positions(b), w \in BOOLEAN}

\* The initialization vectors: rows * columns cells.
CellVectors(b) == [1..(b.rows * b.columns) -> CellValues]

\* The initialization strings: rows * columns code points.
CellStrings(b) == {Repeat(<<"X">>, b.rows * b.columns)}

\* The batches of update_cells: no update, one update <<cell, position>>, and
\* two updates of different values, at one position or at two.  While a
\* dialog is shown the call panics before it reads the batch, and only the
\* batches of one update are tried.
Batches(b) ==
    LET Updates == CellValues \X Positions(b)
    IN  IF b.message_lines # None THEN {<<u>> : u \in Updates}
        ELSE {<<>>} \cup {<<u>> : u \in Updates}
             \cup {<<uv[1], uv[2]>> : uv \in {p \in Updates \X Updates : p[1][1] # p[2][1]}}

\* The keys: the four arrows, a letter get_direction_default maps as well,
\* and a key it does not map.
Keys == {"Left", "Right", "Up", "Down", "a", "q"}

\* The dialogs of show_message.
Messages == {<<<<"h", "i">>>>}

\* Whether the build checks integer overflow (debug) or wraps (release).
OverflowChecks == BOOLEAN

(***************************************************************************)
(* The state machine.  pc is "setup" while the caller builds the Board,    *)
(* "run" once Game::init has taken it, "panicked" after a panic.  ret is   *)
(* the last operation and what it returned; for an initializer also the    *)
(* arguments of the call, for Game::init also the border it wrote.  game   *)
(* holds the lifecycle fields of the Game, state and resume_key:           *)
(* Game::init sets the state, the operations of the Board leave both       *)
(* alone.                                                                  *)
(***************************************************************************)
Returned(op, o) == [op |-> op, val |-> o.ret]

Init ==
    /\ \E c \in BoardConfigs : board = Board_new(c[1], c[2], c[3], c[4], c[5], None)
    /\ pc = "setup"
    /\ ret = [op |-> "new", val |-> Unit]
    /\ game = Game_new

\* One call of a Board operation with outcome o.
Call(op, o, next_pc) ==
    /\ board' = o.board
    /\ ret' = Returned(op, o)
    /\ UNCHANGED game
    /\ pc' = IF o.panicked THEN "panicked" ELSE next_pc

\* One call of a bulk initializer with outcome o.
CallInit(op, o, cells, cursor) ==
    /\ board' = o.board
    /\ ret' = [op |-> op, val |-> o.ret, cells |-> cells, cursor |-> cursor]
    /\ UNCHANGED game
    /\ pc' = IF o.panicked THEN "panicked" ELSE "setup"

\* Board::init_from_vec, on a new board or again on an initialized one.
InitFromVec ==
    /\ pc = "setup"
    /\ \E cells \in CellVectors(board),
          cursor \in {None} \cup {Some(c) : c \in Cursors(board)} :
          CallInit("init_from_vec", Board_init_from_vec(board, cells, cursor),
                   cells, cursor)

\* Board::init_from_str, on a new board or again on an initialized one.
InitFromStr ==
    /\ pc = "setup"
    /\ \E str \in CellStrings(board),
          cursor \in {None} \cup {Some(c) : c \in Cursors(board)} :
          CallInit("init_from_str", Board_init_from_str(board, str, cursor),
                   [i \in 1..Len(str) |-> Char(str[i])], cursor)

\* Game::init without an information area: layout() places the board at the
\* screen origin, the border is written, then the first get_updates.
Game_init ==
    /\ pc = "setup"
    /\ \E checks \in OverflowChecks :
          LET placed == set_position(board, Position(SCREEN_LEFT, SCREEN_TOP))
              o == Board_get_updates(placed, <<>>, checks)
          IN  /\ board' = o.board
              /\ ret' = [op |-> "init", val |-> o.ret, border |-> get_border(placed)]
              /\ pc' = IF o.panicked THEN "panicked" ELSE "run"
              /\ game' = IF o.panicked THEN game
                         ELSE [game EXCEPT !.state = "Initialized"]

\* Game::update_cells
UpdateCells ==
    /\ pc = "run"
    /\ \E updates \in Batches(board) :
          Call("update_cells", Board_update_cells(board, updates), "run")

\* Game::show_message
ShowMessage ==
    /\ pc = "run"
    /\ \E lines \in Messages :
          Call("show_message", Outcome(Board_show_message(board, lines), Unit), "run")

\* Game::hide_message
HideMessage ==
    /\ pc = "run"
    /\ Call("hide_message", Outcome(Board_hide_message(board), Unit), "run")

\* A key read by Game::start and offered to the board.
HandleKey ==
    /\ pc = "run"
    /\ \E key \in Keys : Call("handle_key", Board_handle_key(board, key), "run")

\* The repaint query of Game::start.
GetUpdates ==
    /\ pc = "run"
    /\ \E checks \in OverflowChecks, order \in Orders(board.grid.updates) :
          Call("get_updates", Board_get_updates(board, order, checks), "run")

Next ==
    \/ InitFromVec
    \/ InitFromStr
    \/ Game_init
    \/ UpdateCells
    \/ ShowMessage
    \/ HideMessage
    \/ HandleKey
    \/ GetUpdates

Spec == Init /\ [][Next]_vars

(***************************************************************************)
(* The terminal the output is written to, as far as the directives used    *)
(* here go: ESC [ row ; column H moves the cursor, ESC [ ... m sets the    *)
(* style (ESC [ m resets it), every other grapheme is written at the       *)
(* cursor in the current style and advances the cursor by one column.      *)
(***************************************************************************)
\* The value of a sequence of digits.
RECURSIVE Number(_)
Number(digits) ==
    IF digits = <<>> THEN 0
    ELSE 10 * Number(SubSeq(digits, 1, Len(digits) - 1))
         + (CHOOSE d \in 0..9 : DigitChars[d + 1] = digits[Len(digits)])

\* The index of the final byte of the directive whose parameters start at j.
RECURSIVE DirectiveEnd(_, _)
DirectiveEnd(out, j) ==
    IF j >= Len(out) \/ out[j] \in {"H", "m"} THEN j ELSE DirectiveEnd(out, j + 1)

\* The index of the first ESC at or after j, Len(out) + 1 when there is none.
RECURSIVE RunEnd(_, _)
RunEnd(out, j) ==
    IF j > Len(out) \/ out[j] = ESC THEN j ELSE RunEnd(out, j + 1)

\* The writes <<x, y, grapheme, style>> of out from index k on, in order, with
\* the terminal's cursor at (x, y) and its style as given.
RECURSIVE Terminal(_, _, _, _, _, _)
Terminal(out, k, x, y, style, writes) ==
    IF k > Len(out) THEN writes
    ELSE IF out[k] = ESC
    THEN LET e == DirectiveEnd(out, k + 2)
             params == SubSeq(out, k + 2, e - 1)
             semi == CHOOSE i \in 1..Len(params) : params[i] = ";"
         IN  IF out[e] = "H"
             THEN Terminal(out, e + 1,
                           Number(SubSeq(params, semi + 1, Len(params))),
                           Number(SubSeq(params, 1, semi - 1)), style, writes)
             ELSE Terminal(out, e + 1, x, y, params, writes)
    ELSE LET e == RunEnd(out, k)
         IN  Terminal(out, e, x + (e - k), y, style,
                      writes \o [i \in 1..(e - k) |-> <<x + i - 1, y, out[k + i - 1], style>>])

\* The writes of an output, on a terminal with its cursor at the origin.
Writes(out) == Terminal(out, 1, 1, 1, <<>>, <<>>)

\* The parameters of the background directive a cursor highlights with.
ColorBgParams == SubSeq(ColorBg, 3, Len(ColorBg) - 1)

(***************************************************************************)
(* What the properties below speak of.                                     *)
(***************************************************************************)
\* A cell holds highlighted content: content that opens with the cursor's
\* background directive.
IsHighlighted(cell) ==
    /\ cell.kind = "Content"
    /\ Len(cell.s) >= Len(ColorBg)
    /\ SubSeq(cell.s, 1, Len(ColorBg)) = ColorBg

\* The cell of the grid at a position.
CellAt(b, pos) == b.grid.cells[get_cell_pos(b.grid, pos) + 1]

\* The cursor invariant: the cursor is inside the grid, the cell at its
\* position is the highlighted variant of the original it remembers, the
\* original is not highlighted, and no other cell is highlighted.
CursorInv(b) ==
    /\ b.cursor # None
    /\ b.cursor[1].position \in Positions(b)
    /\ ~IsHighlighted(b.cursor[1].original_cell)
    /\ CellAt(b, b.cursor[1].position)
         = with_bg_color(b.cursor[1].original_cell, b.cell_width, b.cell_height,
                         b.resources)
    /\ \A p \in Positions(b) \ {b.cursor[1].position} : ~IsHighlighted(CellAt(b, p))

\* The step is a call of op that returned.
Returns(op, next_pc) == ret'.op = op /\ pc' = next_pc

\* C1, attachment: an initializer called with a cursor leaves the cursor
\* invariant, the cursor at its start position, and as original the cell the
\* call wrote at that position.
C1_Attach ==
    (/\ ret'.op \in {"init_from_vec", "init_from_str"}
     /\ pc' = "setup"
     /\ ret'.cursor # None)
    => /\ CursorInv(board')
       /\ board'.cursor[1].position = ret'.cursor[1].position
       /\ board'.cursor[1].original_cell
            = ret'.cells[get_cell_pos(board'.grid, ret'.cursor[1].position) + 1]

\* C1, key events: a key keeps the cursor invariant; a move to another
\* position writes the original back to the old position and remembers the
\* cell it found at the new one; a key that moves nothing changes nothing.
C1_Key ==
    (Returns("handle_key", "run") /\ CursorInv(board))
    => /\ CursorInv(board')
       /\ board'.cursor[1].wrap_around = board.cursor[1].wrap_around
       /\ IF ret'.val.kind = "NewPosition"
          THEN /\ ret'.val.pos = board'.cursor[1].position
               /\ IF board'.cursor[1].position # board.cursor[1].position
                  THEN /\ CellAt(board', board.cursor[1].position)
                            = board.cursor[1].original_cell
                       /\ board'.cursor[1].original_cell
                            = CellAt(board, board'.cursor[1].position)
                  ELSE board'.cursor[1].original_cell = board.cursor[1].original_cell
          ELSE board' = board

\* C1, the other operations: a targeted update keeps the cursor invariant and
\* the cursor's position; showing or hiding the dialog and a repaint query
\* change neither a cell nor the cursor.
C1_Others ==
    /\ (Returns("update_cells", "run") /\ CursorInv(board))
       => /\ CursorInv(board')
          /\ board'.cursor[1].position = board.cursor[1].position
    /\ ret'.op \in {"show_message", "hide_message", "get_updates", "init"}
       => /\ board'.grid.cells = board.grid.cells
          /\ board'.cursor = board.cursor

\* C1: once a cursor is attached inside the grid, every key event (all four
\* directions, wraparound on or off) keeps exactly one position highlighted,
\* the cursor's, with the remembered original equal to the last
\* non-highlighted value written there by initialization, a targeted update
\* or a restoration.
C1_CursorInvariant == [][C1_Attach /\ C1_Key /\ C1_Others]_vars

\* A key has moved the cursor off a cell whose original was Char "X".
C1_Witness ==
    /\ pc = "run"
    /\ ret.op = "handle_key"
    /\ ret.val.kind = "NewPosition"
    /\ CursorInv(board)
    /\ \E p \in Positions(board) \ {board.cursor[1].position} : CellAt(board, p) = Char("X")
    /\ Cardinality(board.grid.updates) >= 2

\* The last value a batch writes at a position.
LastFor(updates, pos) ==
    LET hits == {k \in 1..Len(updates) : updates[k][2] = pos}
    IN  updates[CHOOSE k \in hits : \A l \in hits : l <= k][1]

\* C2: when update_cells applies a batch with one or more updates at the
\* cursor's position, the cursor then remembers the last value the batch
\* wrote there, the cell there is the highlighted variant of that value, and
\* a later move to another position restores that value to the old position.
C2_UpdateAtCursor ==
    (pc = "run" /\ board.message_lines = None /\ board.cursor # None)
    => \A updates \in Batches(board) :
          LET pos == board.cursor[1].position
              o == Board_update_cells(board, updates)
          IN  (\E k \in 1..Len(updates) : updates[k][2] = pos)
              => /\ ~o.panicked
                 /\ o.board.cursor[1].position = pos
                 /\ o.board.cursor[1].original_cell = LastFor(updates, pos)
                 /\ CellAt(o.board, pos)
                      = with_bg_color(LastFor(updates, pos), board.cell_width,
                                      board.cell_height, board.resources)
                 /\ \A key \in Keys :
                       LET m == Board_handle_key(o.board, key)
                       IN  (m.ret.kind = "NewPosition" /\ m.ret.pos # pos)
                           => CellAt(m.board, pos) = LastFor(updates, pos)

\* update_cells has written Char "X" under a cursor that stood on an Empty
\* cell since initialization.
C2_Witness ==
    /\ pc = "run"
    /\ ret.op = "update_cells"
    /\ CursorInv(board)
    /\ board.cursor[1].original_cell = Char("X")
    /\ \A p \in Positions(board) \ {board.cursor[1].position} : CellAt(board, p) = Empty
    /\ board.grid.updates = {get_cell_pos(board.grid, board.cursor[1].position)}

(***************************************************************************)
(* Repaint queries and what their output paints.                           *)
(***************************************************************************)
\* The step is a repaint query (of the loop, or the first one, of
\* Game::init) that found no dialog and returned output.
Repainted ==
    /\ ret'.op \in {"get_updates", "init"}
    /\ pc' = "run"
    /\ board.message_lines = None
    /\ ret'.val # None

\* What the step wrote to the terminal: Game::init writes the border, then
\* the output of the query.
Written == IF ret'.op = "init" THEN ret'.border \o ret'.val[1] ELSE ret'.val[1]

\* What the terminal shows at (x, y) after the writes: the last one there.
ScreenAt(writes, x, y) ==
    LET hits == {k \in 1..Len(writes) : writes[k][1] = x /\ writes[k][2] = y}
    IN  IF hits = {} THEN None
        ELSE LET last == CHOOSE k \in hits : \A l \in hits : l <= k
             IN  Some(<<writes[last][3], writes[last][4]>>)

\* The graphemes of a cell of width x height and the style they show in:
\* spaces for Empty, the character for Char, the payload for Content, in
\* the cursor's background if the payload opens with its directive.
Glyphs(cell, width, height) ==
    CASE cell.kind = "Empty" -> [k \in 1..(width * height) |-> <<" ", <<>>>>]
      [] cell.kind = "Char" -> [k \in 1..(width * height) |-> <<cell.ch, <<>>>>]
      [] cell.kind = "Content" /\ IsHighlighted(cell) ->
            [k \in 1..(Len(cell.s) - Len(ColorBg)) |->
               <<cell.s[Len(ColorBg) + k], ColorBgParams>>]
      [] OTHER -> [k \in 1..Len(cell.s) |-> <<cell.s[k], <<>>>>]

\* The terminal coordinates of the rectangle of the cell of index idx, row
\* by row.
Rect(b, idx) ==
    [k \in 1..(b.cell_width * b.cell_height) |->
       <<get_cell_top_left(b, idx)[1] + ((k - 1) % b.cell_width),
         get_cell_top_left(b, idx)[2] + ((k - 1) \div b.cell_width)>>]

\* After the writes the terminal shows the cell of index idx of board b in
\* the cell's rectangle.
PaintsCell(writes, b, idx) ==
    /\ Len(Glyphs(b.grid.cells[idx + 1], b.cell_width, b.cell_height))
         = b.cell_width * b.cell_height
    /\ \A k \in 1..(b.cell_width * b.cell_height) :
          ScreenAt(writes, Rect(b, idx)[k][1], Rect(b, idx)[k][2])
            = Some(Glyphs(b.grid.cells[idx + 1], b.cell_width, b.cell_height)[k])

\* The indices of the grid.
Indices(b) == 0..(Len(b.grid.cells) - 1)

\* C3, first half: a repaint query that returned output while no dialog is
\* shown leaves no dirty cell and both flags clear.
C3_Clean ==
    Repainted => (~has_updates(board'.grid) /\ ~board'.update_all)

\* C3, second half: a repaint query that directly follows a repaint query,
\* with no dialog shown, returns None and changes nothing.
C3_Idempotent ==
    (/\ pc = "run"
     /\ ret.op \in {"get_updates", "init"}
     /\ board.message_lines = None
     /\ ret'.op = "get_updates")
    => (pc' = "run" /\ ret'.val = None /\ board' = board)

\* C3: after a repaint query that returned output while no dialog is shown
\* the grid reports no dirty cells and the structural flag is clear, and
\* every further query with no mutation in between returns None.
C3_RepaintIdempotent == [][C3_Clean /\ C3_Idempotent]_vars

\* A repaint query of the loop has returned the dirty cells of a board with
\* a cursor and has left nothing to repaint.
C3_Witness ==
    /\ pc = "run"
    /\ ret.op = "get_updates"
    /\ ret.val # None
    /\ board.message_lines = None
    /\ board.cursor # None
    /\ ~has_updates(board.grid)
    /\ ~board.update_all

\* C4: a position leaves the dirty set, or the grid's update-all flag falls,
\* only in a repaint query that found no dialog and returned output, and then
\* the whole dirty set and the flag are cleared; no initialization, targeted
\* update, cursor operation, show or hide of the dialog, or query answered
\* with the dialog removes a dirty position.
C4_ClearedOnlyByCompletion ==
    [][((board.grid.updates \ board'.grid.updates) # {}
        \/ (board.grid.update_all /\ ~board'.grid.update_all))
       => (Repainted /\ board'.grid.updates = {} /\ ~board'.grid.update_all)]_vars

\* A repaint query has been answered with the dialog and the grid still
\* holds dirty positions.
C4_Witness ==
    /\ pc = "run"
    /\ ret.op = "get_updates"
    /\ ret.val # None
    /\ board.message_lines # None
    /\ board.grid.updates # {}

\* C5, marking: a step that changes the cell of an index leaves the index
\* dirty or a full repaint pending.
C5_Marked ==
    \A idx \in Indices(board) :
        board'.grid.cells[idx + 1] # board.grid.cells[idx + 1]
        => \/ idx \in board'.grid.updates
           \/ board'.grid.update_all
           \/ board'.update_all

\* C5, clearing: an index leaves the dirty set only in a repaint whose output
\* paints the cell's value; a pending full repaint ends only in a repaint
\* whose output paints every cell; and leaving the dialog, which painted over
\* the cells, leaves a full repaint pending.
C5_Emitted ==
    /\ (board.grid.updates \ board'.grid.updates) # {}
       => /\ Repainted
          /\ \A writes \in {Writes(Written)} :
                \A idx \in board.grid.updates \ board'.grid.updates :
                    PaintsCell(writes, board', idx)
    /\ ((board.grid.update_all /\ ~board'.grid.update_all)
        \/ (board.update_all /\ ~board'.update_all))
       => /\ Repainted
          /\ \A writes \in {Writes(Written)} :
                \A idx \in Indices(board) : PaintsCell(writes, board', idx)
    /\ (board.message_lines # None /\ board'.message_lines = None)
       => board'.update_all

\* C5: with no dialog shown, every position whose value differs from what
\* the last repaint output painted for it is dirty, or a full repaint is
\* pending; no change made by a targeted update or a cursor move, before or
\* while a dialog was shown, is cleared without having been emitted.
C5_StaleIsDirty == [][C5_Marked /\ C5_Emitted]_vars

\* The dialog has been hidden over cells that changed since the last
\* repaint: they are still dirty and a full repaint is pending.
C5_Witness ==
    /\ pc = "run"
    /\ ret.op = "hide_message"
    /\ board.message_lines = None
    /\ board.grid.updates # {}
    /\ board.update_all

(***************************************************************************)
(* The dialog, the border and the strategies of a repaint.                 *)
(***************************************************************************)
\* C6: update_cells called while a dialog is shown panics, and the board
\* (grid cells, dirty set, cursor) is as it was before the call.
C6_UpdateUnderDialogFatal ==
    [][(board.message_lines # None /\ ret'.op = "update_cells")
       => (pc' = "panicked" /\ board' = board)]_vars

\* update_cells has panicked on a board that shows a dialog.
C6_Witness ==
    /\ pc = "panicked"
    /\ ret.op = "update_cells"
    /\ board.message_lines # None
    /\ board.cursor # None

\* The glyphs of the outer frame.
FrameGlyphs ==
    {DOUBLE_BORDER_HOR_LINE, DOUBLE_BORDER_VERT_LINE, DOUBLE_BORDER_TOP_LEFT,
     DOUBLE_BORDER_TOP_RIGHT, DOUBLE_BORDER_BOTTOM_LEFT, DOUBLE_BORDER_BOTTOM_RIGHT,
     DOUBLE_BORDER_JOIN_LEFT, DOUBLE_BORDER_JOIN_RIGHT, DOUBLE_BORDER_JOIN_UP,
     DOUBLE_BORDER_JOIN_DOWN}

\* The glyphs of the border: the frame's and the lines between cells.
BorderGlyphs ==
    FrameGlyphs \cup {SINGLE_BORDER_HOR_LINE, SINGLE_BORDER_VERT_LINE, SINGLE_BORDER_CROSS}

\* The terminal coordinates of the outer frame of the board.
Frame(b) ==
    {<<b.position[1] + p[1], b.position[2] + p[2]>> :
       p \in {q \in (0..(b.width - 1)) \X (0..(b.height - 1)) :
                q[1] \in {0, b.width - 1} \/ q[2] \in {0, b.height - 1}}}

\* After the writes the terminal shows the border: a frame glyph at every
\* coordinate of the outer frame, the corners in the corners.
PaintsBorder(writes, b) ==
    /\ \A xy \in Frame(b) :
          /\ ScreenAt(writes, xy[1], xy[2]) # None
          /\ ScreenAt(writes, xy[1], xy[2])[1][1] \in FrameGlyphs
    /\ ScreenAt(writes, b.position[1], b.position[2])
         = Some(<<DOUBLE_BORDER_TOP_LEFT, <<>>>>)
    /\ ScreenAt(writes, b.position[1] + b.width - 1, b.position[2] + b.height - 1)
         = Some(<<DOUBLE_BORDER_BOTTOM_RIGHT, <<>>>>)

\* The writes paint no border glyph at all.
PaintsNoBorder(writes) ==
    \A k \in 1..Len(writes) : writes[k][3] \notin BorderGlyphs

\* C7, the steps: hide_message closes the dialog and raises the structural
\* flag; the flag falls only in a repaint query that found no dialog; and a
\* repaint query that finds the flag up and no dialog returns output that
\* paints the border and every cell.
C7_Step ==
    /\ ret'.op = "hide_message"
       => (pc' = "run" /\ board'.update_all /\ board'.message_lines = None)
    /\ (board.update_all /\ ~board'.update_all) => Repainted
    /\ (ret'.op = "get_updates" /\ board.update_all /\ board.message_lines = None)
       => /\ Repainted
          /\ \A writes \in {Writes(ret'.val[1])} :
                /\ PaintsBorder(writes, board)
                /\ \A idx \in Indices(board) : PaintsCell(writes, board, idx)

\* C7: after every hide_message the next repaint query is a full repaint,
\* border plus every cell's content, never a sparse repaint and never no
\* output, even if no cell changed since the last repaint.
C7_HideForcesFullRepaint == [][C7_Step]_vars

\* A repaint query of the loop has returned the border and every cell of a
\* board of more than one cell, none of which was dirty: the repaint that
\* follows hide_message.
C7_Witness ==
    /\ pc = "run"
    /\ ret.op = "get_updates"
    /\ ret.val # None
    /\ board.message_lines = None
    /\ Len(board.grid.cells) > 1
    /\ PaintsBorder(Writes(ret.val[1]), board)
    /\ \A idx \in Indices(board) : PaintsCell(Writes(ret.val[1]), board, idx)

\* C8: while a dialog is shown every repaint query returns the dialog
\* rendering and nothing else, whatever is dirty or invalidated, and leaves
\* the dialog shown.
C8_DialogOnly ==
    [][(board.message_lines # None /\ ret'.op = "get_updates")
       => /\ pc' = "run"
          /\ board' = board
          /\ \E checks \in OverflowChecks :
                /\ ~get_message_dialog(board, checks).panicked
                /\ ret'.val = get_message_dialog(board, checks).text]_vars

\* C9 as the specification has it: initialization raises the structural flag
\* of the board, and the output of the first repaint query paints the border
\* and every cell and clears the flag.
C9_StructuralFirstRepaint ==
    [][/\ (ret'.op \in {"init_from_vec", "init_from_str"} /\ pc' = "setup")
          => board'.update_all
       /\ ret'.op = "init"
          => /\ pc' = "run"
             /\ ret'.val # None
             /\ ~board'.update_all
             /\ \A writes \in {Writes(ret'.val[1])} :
                   /\ PaintsBorder(writes, board')
                   /\ \A idx \in Indices(board) : PaintsCell(writes, board', idx)]_vars

\* C9, the initializers: they raise the update-all flag of the grid and
\* leave the structural flag of the board clear.
C9_Init ==
    (ret'.op \in {"init_from_vec", "init_from_str"} /\ pc' = "setup")
    => (board'.grid.update_all /\ ~board'.update_all)

\* C9, the first repaint query, made by Game::init: its output paints every
\* cell and no border glyph; the border is what Game::init writes before it;
\* afterwards nothing is left to repaint.
C9_FirstQuery ==
    ret'.op = "init"
    => /\ pc' = "run"
       /\ ret'.val # None
       /\ \A writes \in {Writes(ret'.val[1])} :
             /\ PaintsNoBorder(writes)
             /\ \A idx \in Indices(board) : PaintsCell(writes, board', idx)
       /\ \A writes \in {Writes(ret'.border)} : PaintsBorder(writes, board')
       /\ ~has_updates(board'.grid)
       /\ ~board'.update_all

\* C9, amended: initialization raises the grid's update-all flag, not the
\* board's structural flag; the first repaint query returns every cell's
\* content without the border, which Game::init writes itself just before;
\* afterwards the grid's flag and the dirty set are clear.
C9_FirstRepaintAfterInit == [][C9_Init /\ C9_FirstQuery]_vars

\* Game::init has made the first repaint query of a board that was
\* initialized with a Char "X" and a cursor.
C9_Witness ==
    /\ pc = "run"
    /\ ret.op = "init"
    /\ ret.val # None
    /\ board.cursor # None
    /\ \E p \in Positions(board) : CellAt(board, p) = Char("X")
    /\ PaintsNoBorder(Writes(ret.val[1]))
    /\ PaintsBorder(Writes(ret.border), board)

\* The number of positioning directives in an output.
GotoCount(out) ==
    Cardinality({k \in 1..Len(out) :
                   out[k] = ESC /\ out[DirectiveEnd(out, k + 2)] = "H"})

\* C10, the step: a repaint query that finds no dialog, the structural flag
\* clear and the grid not all-dirty returns None when nothing is dirty, and
\* otherwise output that writes each coordinate of each dirty cell's
\* rectangle once, with the cell's current value, writes nothing else, and
\* positions once per line of each dirty cell.
C10_Step ==
    (/\ ret'.op = "get_updates"
     /\ board.message_lines = None
     /\ ~board.update_all
     /\ ~board.grid.update_all)
    => IF board.grid.updates = {}
       THEN pc' = "run" /\ ret'.val = None
       ELSE /\ Repainted
            /\ board'.grid.cells = board.grid.cells
            /\ \A writes \in {Writes(ret'.val[1])} :
                  /\ Len(writes) = Cardinality(board.grid.updates)
                                     * board.cell_width * board.cell_height
                  /\ \A idx \in board.grid.updates : PaintsCell(writes, board', idx)
            /\ GotoCount(ret'.val[1])
                 = Cardinality(board.grid.updates) * board.cell_height

\* C10: with no dialog shown, the structural flag clear and the grid not
\* all-dirty, the output of a repaint query holds exactly one emission for
\* each dirty position and none for a clean one, each with the cell's current
\* value at its mapped coordinate; a cell updated several times since the
\* last repaint is emitted once, with its latest value.
C10_SparseRepaint == [][C10_Step]_vars

\* A repaint query has returned the emissions of two cells of a grid of more
\* than two, one of them the highlighted cell of the cursor.
C10_Witness ==
    /\ pc = "run"
    /\ ret.op = "get_updates"
    /\ ret.val # None
    /\ board.message_lines = None
    /\ Len(board.grid.cells) > 2
    /\ Len(Writes(ret.val[1])) = 2 * board.cell_width * board.cell_height
    /\ \E k \in 1..2 : Writes(ret.val[1])[k][4] = ColorBgParams

(***************************************************************************)
(* The interaction loop on boards of three columns.  Game::start reads a   *)
(* key, offers it to the board, lets the listener react (it may update     *)
(* cells), and then makes the repaint query: one key between two queries.  *)
(***************************************************************************)
\* Board::new arguments of the boards of three columns: the 3 x 3 square of
\* 1x1 cells, without and with lines between cells, and three columns by two
\* rows.
SquareConfigs ==
    {<<3, 3, 1, 1, FALSE>>, <<3, 3, 1, 1, TRUE>>, <<3, 2, 1, 1, FALSE>>}

\* The string the caller initializes such a board from.
SquareString(b) == Repeat(<<"-">>, b.rows * b.columns)

\* The batches a listener sends: Char 'X' written at the centre position
\* (1,1), at the corner (2,0), or at both.
SquareBatches ==
    {<<<<Char("X"), Position(1, 1)>>>>, <<<<Char("X"), Position(2, 0)>>>>,
     <<<<Char("X"), Position(2, 0)>>, <<Char("X"), Position(1, 1)>>>>}

SquareInit ==
    /\ \E c \in SquareConfigs : board = Board_new(c[1], c[2], c[3], c[4], c[5], None)
    /\ pc = "setup"
    /\ ret = [op |-> "new", val |-> Unit]
    /\ game = Game_new

\* Board::init_from_str of a new board, with or without a cursor.
SquareInitFromStr ==
    /\ pc = "setup"
    /\ ret.op = "new"
    /\ \E cursor \in {None} \cup {Some(c) : c \in Cursors(board)} :
          CallInit("init_from_str",
                   Board_init_from_str(board, SquareString(board), cursor),
                   [i \in 1..Len(SquareString(board)) |-> Char(SquareString(board)[i])],
                   cursor)

\* Game::init of an initialized board.
SquareGameInit ==
    /\ ret.op = "init_from_str"
    /\ Game_init

\* The key Game::start reads after a repaint query and offers to the board;
\* ret keeps the key with the result.
SquareHandleKey ==
    /\ pc = "run"
    /\ ret.op \in {"init", "get_updates"}
    /\ \E key \in Keys :
          LET o == Board_handle_key(board, key)
          IN  /\ board' = o.board
              /\ ret' = [op |-> "handle_key", val |-> o.ret, key |-> key]
              /\ pc' = IF o.panicked THEN "panicked" ELSE "run"
              /\ UNCHANGED game

\* Game::update_cells called by the listener for the key just handled.
SquareUpdateCells ==
    /\ pc = "run"
    /\ ret.op = "handle_key"
    /\ \E updates \in SquareBatches :
          Call("update_cells", Board_update_cells(board, updates), "run")

\* The repaint query that ends the turn of the loop.
SquareGetUpdates ==
    /\ ret.op \in {"handle_key", "update_cells"}
    /\ GetUpdates

SquareNext ==
    \/ SquareInitFromStr
    \/ SquareGameInit
    \/ SquareHandleKey
    \/ SquareUpdateCells
    \/ SquareGetUpdates

SquareSpec == SquareInit /\ [][SquareNext]_vars

\* The terminal coordinate of the centre cell (1,1) of a board of 1x1 cells
\* placed at the screen origin: past the frame and past one cell, and past
\* the line between the cells where there is one.
CentreCoordinate(b) ==
    <<SCREEN_LEFT + 1 + (IF b.cell_borders THEN 2 ELSE 1),
      SCREEN_TOP + 1 + (IF b.cell_borders THEN 2 ELSE 1)>>

\* The 3 x 3 board after the update of its centre: the centre is the only
\* dirty cell and nothing else asks for a repaint.
CentreUpdated(b) ==
    /\ b.columns = 3
    /\ b.rows = 3
    /\ b.message_lines = None
    /\ ~b.update_all
    /\ ~b.grid.update_all
    /\ b.grid.updates = {4}

\* C11, the step: the repaint query that follows the update of the centre
\* writes one grapheme, 'X', at the centre's coordinate, after one positioning
\* directive; without a cursor the output is that directive and the 'X'.
C11_Step ==
    (/\ pc = "run"
     /\ ret.op = "update_cells"
     /\ CentreUpdated(board)
     /\ ret'.op = "get_updates")
    => /\ pc' = "run"
       /\ ret'.val # None
       /\ GotoCount(ret'.val[1]) = 1
       /\ \A writes \in {Writes(ret'.val[1])} :
             /\ Len(writes) = 1
             /\ writes[1][1] = CentreCoordinate(board)[1]
             /\ writes[1][2] = CentreCoordinate(board)[2]
             /\ writes[1][3] = "X"
       /\ board.cursor = None
          => ret'.val[1] = Goto(CentreCoordinate(board)[1], CentreCoordinate(board)[2])
                           \o <<"X">>

\* C11: a 3 x 3 board of 1x1 cells initialized from "---------" and then
\* updated at grid position (1,1) to Char 'X' yields, on the repaint query
\* that follows the update, exactly one positioning+content emission,
\* addressed to the terminal coordinate of the centre cell.
C11_CentreEmission == [][C11_Step]_vars

\* The repaint query after the update of the centre of the 3 x 3 board
\* without cell borders and without a cursor has returned the positioning
\* directive for row 3, column 3 and the 'X'.
C11_Witness ==
    /\ pc = "run"
    /\ ret.op = "get_updates"
    /\ ret.val = Some(Goto(3, 3) \o <<"X">>)
    /\ board.cursor = None
    /\ board.grid.cells
         = [i \in 1..9 |-> IF i = 5 THEN Char("X") ELSE Char("-")]

(***************************************************************************)
(* The states of the board: a dialog shown; a full repaint pending (one of *)
(* the two update-all flags is up); dirty cells only; nothing to repaint.  *)
(***************************************************************************)
DialogShown(b) == b.message_lines # None

NeedsFullRepaint(b) ==
    b.message_lines = None /\ (b.update_all \/ b.grid.update_all)

HasDirtyCells(b) ==
    /\ b.message_lines = None
    /\ ~b.update_all
    /\ ~b.grid.update_all
    /\ b.grid.updates # {}

Clean(b) ==
    /\ b.message_lines = None
    /\ ~b.update_all
    /\ ~b.grid.update_all
    /\ b.grid.updates = {}

\* C12 as the specification has it: an update_cells call that is accepted and
\* writes to the grid finds the board Clean or with dirty cells only, and
\* leaves it with dirty cells only.
C12_OnlyFromCleanOrDirty ==
    [][(ret'.op = "update_cells" /\ pc' = "run" /\ board' # board)
       => /\ Clean(board) \/ HasDirtyCells(board)
          /\ HasDirtyCells(board')]_vars

\* C12, the update: it is refused exactly when a dialog is shown; accepted
\* with a full repaint pending it leaves the full repaint pending; accepted
\* otherwise, a batch that writes to the grid leaves dirty cells only.
C12_Update ==
    ret'.op = "update_cells"
    => /\ pc' = "panicked" <=> DialogShown(board)
       /\ (pc' = "run" /\ NeedsFullRepaint(board)) => NeedsFullRepaint(board')
       /\ (pc' = "run" /\ ~NeedsFullRepaint(board) /\ board' # board)
          => HasDirtyCells(board')

\* C12, the query that follows: with dirty cells only it writes the dirty
\* cells and nothing else; with a full repaint pending it writes every cell.
C12_Query ==
    ret'.op = "get_updates"
    => /\ HasDirtyCells(board)
          => /\ Repainted
             /\ \A writes \in {Writes(ret'.val[1])} :
                   /\ Len(writes) = Cardinality(board.grid.updates)
                                      * board.cell_width * board.cell_height
                   /\ \A idx \in board.grid.updates : PaintsCell(writes, board, idx)
       /\ NeedsFullRepaint(board)
          => /\ Repainted
             /\ \A writes \in {Writes(ret'.val[1])} :
                   \A idx \in Indices(board) : PaintsCell(writes, board, idx)

\* C12, amended: a targeted cell update is refused only while a dialog is
\* shown.  It is accepted when the board is Clean or has dirty cells and then
\* leaves dirty cells only, so that the next repaint query is a sparse
\* repaint; it is accepted as well while a full repaint is pending, which
\* stays pending, so that the next repaint query is a full repaint.
C12_AcceptedUnlessDialog == [][C12_Update /\ C12_Query]_vars

\* update_cells has been accepted between hide_message and the repaint
\* query: the full repaint is still pending and cells are dirty.
C12_Witness ==
    /\ pc = "run"
    /\ ret.op = "update_cells"
    /\ NeedsFullRepaint(board)
    /\ board.update_all
    /\ board.grid.updates # {}

(***************************************************************************)
(* Keys and the moves they ask for.                                        *)
(***************************************************************************)
\* The direction a key of Keys asks for, "None" for a key that asks for none.
KeyDirection(key) ==
    CASE key \in {"Left", "a"} -> "Left"
      [] key = "Right" -> "Right"
      [] key = "Up" -> "Up"
      [] key = "Down" -> "Down"
      [] OTHER -> "None"

\* A cursor at pos on a grid of columns x rows would leave the grid by a
\* move in direction dir.
OffEdge(pos, dir, columns, rows) ==
    \/ dir = "Left" /\ pos[1] = 0
    \/ dir = "Right" /\ pos[1] = columns - 1
    \/ dir = "Up" /\ pos[2] = 0
    \/ dir = "Down" /\ pos[2] = rows - 1

\* Where a move in direction dir from pos lands: one step along the axis, or
\* the opposite edge of the axis when the step would leave the grid.
Landing(pos, dir, columns, rows) ==
    CASE dir = "Left" -> <<IF pos[1] = 0 THEN columns - 1 ELSE pos[1] - 1, pos[2]>>
      [] dir = "Right" -> <<IF pos[1] = columns - 1 THEN 0 ELSE pos[1] + 1, pos[2]>>
      [] dir = "Up" -> <<pos[1], IF pos[2] = 0 THEN rows - 1 ELSE pos[2] - 1>>
      [] dir = "Down" -> <<pos[1], IF pos[2] = rows - 1 THEN 0 ELSE pos[2] + 1>>

\* C13, the step: a directional key offered to a board whose cursor is inside
\* the grid moves the cursor to the landing position and reports it, unless
\* the move leaves the grid and wraparound is off; whatever the key, the
\* cursor is inside the grid afterwards.
C13_Step ==
    (/\ ret'.op = "handle_key"
     /\ board.cursor # None
     /\ board.cursor[1].position \in Positions(board))
    => LET cursor == board.cursor[1]
           dir == KeyDirection(ret'.key)
       IN  /\ pc' = "run"
           /\ board'.cursor # None
           /\ board'.cursor[1].position \in Positions(board')
           /\ (/\ dir # "None"
               /\ cursor.wrap_around
                  \/ ~OffEdge(cursor.position, dir, board.columns, board.rows))
              => /\ board'.cursor[1].position
                      = Landing(cursor.position, dir, board.columns, board.rows)
                 /\ ret'.val = NewPosition(board'.cursor[1].position)

\* C13: with wraparound enabled, a move off an edge lands on the opposite
\* edge of the same axis with the other coordinate unchanged; every other
\* move changes exactly one coordinate by one; a cursor that starts inside
\* the grid stays inside the grid after any sequence of keys.
C13_WrapAround == [][C13_Step]_vars

\* The Left key has taken a cursor from column 0 to column 2, the last one.
C13_Witness ==
    /\ pc = "run"
    /\ ret.op = "handle_key"
    /\ ret.key = "Left"
    /\ ret.val = NewPosition(Position(2, 1))
    /\ board.cursor # None
    /\ board.cursor[1].wrap_around
    /\ board.cursor[1].position = Position(2, 1)
    /\ board.grid.updates = {3, 5}

\* C14, the key: a directional key that would leave the grid with wraparound
\* off reports Consumed; a key that asks for no direction, and any key on a
\* board without a cursor, reports NotHandled; and a key that reports either
\* leaves the board (cursor, remembered original, cells, dirty set) as it was.
C14_Key ==
    ret'.op = "handle_key"
    => LET dir == KeyDirection(ret'.key)
       IN  /\ board.cursor = None => ret'.val = NotHandled
           /\ (board.cursor # None /\ dir = "None") => ret'.val = NotHandled
           /\ (/\ board.cursor # None
               /\ dir # "None"
               /\ ~board.cursor[1].wrap_around
               /\ OffEdge(board.cursor[1].position, dir, board.columns, board.rows))
              => ret'.val = Consumed
           /\ ret'.val \in {Consumed, NotHandled}
              => (pc' = "run" /\ board' = board)

\* C14, the query: the repaint query that follows a key that moved nothing
\* returns None.
C14_Query ==
    (/\ pc = "run"
     /\ ret.op = "handle_key"
     /\ ret.val \in {Consumed, NotHandled}
     /\ ret'.op = "get_updates")
    => (pc' = "run" /\ ret'.val = None /\ board' = board)

\* C14: a key that causes no movement leaves everything unchanged: a
\* directional key that would leave the grid with wraparound off reports
\* Consumed, an unmapped key (or any key on a board without a cursor) reports
\* NotHandled, and in both cases the cursor, the remembered original, every
\* cell and the dirty set are unchanged, so that the next repaint query emits
\* nothing because of it.
C14_NoMovementNoChange == [][C14_Key /\ C14_Query]_vars

\* The Up key has been consumed by a cursor in row 0 that does not wrap, and
\* nothing is dirty.
C14_Witness ==
    /\ pc = "run"
    /\ ret.op = "handle_key"
    /\ ret.key = "Up"
    /\ ret.val = Consumed
    /\ board.cursor # None
    /\ board.cursor[1].position[2] = 0
    /\ ~board.cursor[1].wrap_around
    /\ board.grid.updates = {}

(***************************************************************************)
(* Initialization with arguments of any length and with ResourceId cells,  *)
(* on boards with and without a resource table.                            *)
(***************************************************************************)
\* The resource table of the boards that have one: the payload of id 1.
ResourceTable == [id \in {1} |-> <<"r", "s">>]

\* Board::new arguments <<width, height, cell_width, cell_height,
\* cell_borders, resources>>.
SetupConfigs ==
    {<<2, 1, 1, 1, FALSE>>, <<1, 2, 1, 1, FALSE>>, <<2, 1, 2, 1, TRUE>>}
    \X {None, Some(ResourceTable)}

\* The cells a caller supplies.
SetupCellValues == {Empty, Char("X"), ResourceId(1)}

\* The vectors a caller initializes from: every vector of rows * columns
\* cells, and the vectors of one value of every other length up to one more.
SetupVectors(b) ==
    [1..(b.rows * b.columns) -> SetupCellValues]
    \cup {[i \in 1..k |-> v] :
            k \in (0..(b.rows * b.columns + 1)) \ {b.rows * b.columns},
            v \in SetupCellValues}

\* The strings a caller initializes from: 'X' repeated, of every length up to
\* one more than rows * columns.
SetupStrings(b) == {Repeat(<<"X">>, k) : k \in 0..(b.rows * b.columns + 1)}

\* The batches of update_cells: one update.
SetupBatches(b) == {<<u>> : u \in SetupCellValues \X Positions(b)}

SetupInit ==
    /\ \E c \in SetupConfigs :
          board = Board_new(c[1][1], c[1][2], c[1][3], c[1][4], c[1][5], c[2])
    /\ pc = "setup"
    /\ ret = [op |-> "new", val |-> Unit]
    /\ game = Game_new

\* Board::init_from_vec, on a new board or again on an initialized one.
SetupInitFromVec ==
    /\ pc = "setup"
    /\ \E cells \in SetupVectors(board),
          cursor \in {None} \cup {Some(c) : c \in Cursors(board)} :
          CallInit("init_from_vec", Board_init_from_vec(board, cells, cursor),
                   cells, cursor)

\* Board::init_from_str, on a new board or again on an initialized one.
SetupInitFromStr ==
    /\ pc = "setup"
    /\ \E str \in SetupStrings(board),
          cursor \in {None} \cup {Some(c) : c \in Cursors(board)} :
          CallInit("init_from_str", Board_init_from_str(board, str, cursor),
                   [i \in 1..Len(str) |-> Char(str[i])], cursor)

\* Game::init of an initialized board.
SetupGameInit ==
    /\ ret.op \in {"init_from_vec", "init_from_str"}
    /\ Game_init

\* A key read by Game::start and offered to the board; ret keeps the key.
SetupHandleKey ==
    /\ pc = "run"
    /\ \E key \in Keys :
          LET o == Board_handle_key(board, key)
          IN  /\ board' = o.board
              /\ ret' = [op |-> "handle_key", val |-> o.ret, key |-> key]
              /\ pc' = IF o.panicked THEN "panicked" ELSE "run"
              /\ UNCHANGED game

\* Game::update_cells; ret keeps the batch.
SetupUpdateCells ==
    /\ pc = "run"
    /\ \E updates \in SetupBatches(board) :
          LET o == Board_update_cells(board, updates)
          IN  /\ board' = o.board
              /\ ret' = [op |-> "update_cells", val |-> o.ret, updates |-> updates]
              /\ pc' = IF o.panicked THEN "panicked" ELSE "run"
              /\ UNCHANGED game

\* The repaint query of Game::start.
SetupGetUpdates == GetUpdates

SetupNext ==
    \/ SetupInitFromVec
    \/ SetupInitFromStr
    \/ SetupGameInit
    \/ SetupHandleKey
    \/ SetupUpdateCells
    \/ SetupGetUpdates

SetupSpec == SetupInit /\ [][SetupNext]_vars

\* C15: init_from_vec and init_from_str panic whenever the number of supplied
\* cells (the vector's length, the string's count of code points) differs
\* from rows * columns, and then neither the grid nor the cursor is modified.
C15_WrongCountFatal ==
    [][(/\ ret'.op \in {"init_from_vec", "init_from_str"}
        /\ Len(ret'.cells) # board.rows * board.columns)
       => /\ pc' = "panicked"
          /\ board'.grid = board.grid
          /\ board'.cursor = board.cursor
          /\ board' = board]_vars

\* A second initialization, from a vector one cell too long and with a
\* cursor, has panicked on a board that holds an 'X' under its cursor.
C15_Witness ==
    /\ pc = "panicked"
    /\ ret.op = "init_from_vec"
    /\ Len(ret.cells) = board.rows * board.columns + 1
    /\ ret.cursor # None
    /\ board.cursor # None
    /\ board.cursor[1].original_cell = Char("X")
    /\ ~board.cursor[1].wrap_around
    /\ ret.cursor[1].wrap_around

\* C16: init_from_str panics whenever the board's cell size is not exactly
\* 1x1, that is whenever cell_width is not 1 or cell_height is not 1.
C16_NotOneByOneFatal ==
    [][(/\ ret'.op = "init_from_str"
        /\ board.cell_width # 1 \/ board.cell_height # 1)
       => pc' = "panicked"]_vars

\* The step is an init_from_vec call, with a vector of rows * columns cells,
\* that returned.
InitializedFromVec ==
    /\ ret'.op = "init_from_vec"
    /\ pc' = "setup"
    /\ Len(ret'.cells) = board.rows * board.columns

\* C17 as the specification has it: after init_from_vec with a valid-length
\* vector the i-th cell the grid iterates is input element i, with or without
\* a cursor attached by the call.
C17_IterationIsInput ==
    [][InitializedFromVec
       => /\ Len(CellGrid_iter(board'.grid)) = Len(ret'.cells)
          /\ \A i \in 1..Len(ret'.cells) :
                CellGrid_iter(board'.grid)[i] = ret'.cells[i]]_vars

\* C17, amended: after init_from_vec with a valid-length vector the i-th cell
\* the grid iterates is input element i (row-major: the element of column c
\* and row r is element r * columns + c), except under a cursor attached by
\* the call: that cell is the highlighted variant of its input element, and
\* the cursor remembers the element itself.
C17_IterationIsInputButCursor ==
    [][InitializedFromVec
       => /\ Len(CellGrid_iter(board'.grid)) = Len(ret'.cells)
          /\ \A p \in Positions(board) :
                LET i == p[2] * board.columns + p[1] + 1
                IN  IF ret'.cursor # None /\ ret'.cursor[1].position = p
                    THEN /\ CellGrid_iter(board'.grid)[i]
                              = with_bg_color(ret'.cells[i], board.cell_width,
                                              board.cell_height, board.resources)
                         /\ IsHighlighted(CellGrid_iter(board'.grid)[i])
                         /\ board'.cursor[1].original_cell = ret'.cells[i]
                    ELSE CellGrid_iter(board'.grid)[i] = ret'.cells[i]]_vars

\* init_from_vec has taken [Char 'X', Empty] with a cursor on the second
\* cell: the grid iterates the 'X' first and the highlighted blank second.
C17_Witness ==
    /\ pc = "setup"
    /\ ret.op = "init_from_vec"
    /\ ret.cells = <<Char("X"), Empty>>
    /\ ret.cursor # None
    /\ CellGrid_iter(board.grid)[1] = Char("X")
    /\ IsHighlighted(CellGrid_iter(board.grid)[2])
    /\ board.cursor[1].original_cell = Empty

\* A ResourceId cell of a board that has no resource table.
Unresolved(b, cell) == b.resources = None /\ cell.kind = "ResourceId"

\* C18, highlighting (with_bg_color): attaching a cursor on such a cell,
\* moving the cursor onto one, and updating the cell under the cursor to one
\* all panic, and a cursor never remembers such a cell as its original.
C18_Highlight ==
    /\ (/\ InitializedFromVec \/ (ret'.op = "init_from_vec" /\ pc' = "panicked")
        /\ Len(ret'.cells) = board.rows * board.columns
        /\ ret'.cursor # None
        /\ Unresolved(board, ret'.cells[get_cell_pos(board.grid,
                                                     ret'.cursor[1].position) + 1]))
       => (pc' = "panicked" /\ board'.cursor = board.cursor)
    /\ (/\ ret'.op = "handle_key"
        /\ board.cursor # None
        /\ KeyDirection(ret'.key) # "None"
        /\ board.cursor[1].wrap_around
           \/ ~OffEdge(board.cursor[1].position, KeyDirection(ret'.key),
                       board.columns, board.rows)
        /\ Unresolved(board, CellAt(board, Landing(board.cursor[1].position,
                                                   KeyDirection(ret'.key),
                                                   board.columns, board.rows))))
       => pc' = "panicked"
    /\ (/\ ret'.op = "update_cells"
        /\ board.cursor # None
        /\ \E k \in 1..Len(ret'.updates) :
              /\ ret'.updates[k][2] = board.cursor[1].position
              /\ Unresolved(board, ret'.updates[k][1]))
       => pc' = "panicked"
    /\ board'.cursor # None => ~Unresolved(board', board'.cursor[1].original_cell)

\* C18, formatting (get_content, add_value_to_str): a repaint query that has
\* to format such a cell, in a full repaint or as a dirty cell, panics and
\* returns no output.
C18_Format ==
    (/\ ret'.op \in {"init", "get_updates"}
     /\ board.message_lines = None
     /\ \E idx \in Indices(board) :
           /\ board.update_all \/ board.grid.update_all \/ idx \in board.grid.updates
           /\ Unresolved(board, board.grid.cells[idx + 1]))
    => pc' = "panicked"

\* C18: formatting (get_content, add_value_to_str) or highlighting
\* (with_bg_color) a ResourceId cell when the board has no resource table
\* panics; no output is ever produced for such a cell.
C18_ResourceIdWithoutTableFatal == [][C18_Highlight /\ C18_Format]_vars

\* A repaint query has panicked on a dirty ResourceId cell of a board that
\* has no resource table.
C18_Witness ==
    /\ pc = "panicked"
    /\ ret.op = "get_updates"
    /\ board.resources = None
    /\ ~board.grid.update_all
    /\ \E idx \in board.grid.updates : board.grid.cells[idx + 1] = ResourceId(1)

(***************************************************************************)
(* The content formatter on its own: Cell::get_content of a Content cell,  *)
(* for payloads with and without style directives.                         *)
(***************************************************************************)
\* A style directive (SGR): ESC [ parameters m.
Sgr(params) == <<ESC, "[">> \o params \o <<"m">>

\* The tokens of the payloads: printable graphemes, among them the letter
\* that ends a directive, and a directive.
Tokens == {<<"A">>, <<"B">>, <<"m">>, Sgr(<<"3", "1">>)}

\* The payloads of up to MaxTokens tokens.
TokenPayloads ==
    {Concat(t) : t \in UNION {[1..k -> Tokens] : k \in 0..MaxTokens}}

Letters ==
    <<"A", "B", "C", "D", "E", "F", "G", "H", "I", "J", "K", "L", "M", "N", "O", "P">>

\* The plain payloads that fill a rectangle exactly.
PlainPayloads ==
    {SubSeq(Letters, 1, w * h) : w \in 1..MaxWidth, h \in 1..MaxHeight}

\* "\x1b[31mAB\x1b[0mCD"
StyledPayload == Sgr(<<"3", "1">>) \o <<"A", "B">> \o Sgr(<<"0">>) \o <<"C", "D">>

Payloads == TokenPayloads \cup PlainPayloads \cup {StyledPayload}

\* The origins <<x, y>> of the rectangles: the screen's corner, and one from
\* which the second line is in row 10.
Origins == {<<1, 1>>, <<9, 9>>}

FormatInit ==
    /\ board = Board_new(1, 1, 1, 1, FALSE, None)
    /\ pc = "format"
    /\ ret = [op |-> "new", val |-> Unit]
    /\ game = Game_new

\* The call of Cell::get_content on a Content cell; ret keeps the arguments
\* with the result.
FormatContent ==
    /\ pc = "format"
    /\ ret.op = "new"
    /\ \E content \in Payloads, width \in 1..MaxWidth, height \in 1..MaxHeight,
          origin \in Origins :
          ret' = [op |-> "get_content", content |-> content,
                  width |-> width, height |-> height,
                  x |-> origin[1], y |-> origin[2],
                  val |-> get_content(Content(content), width, height,
                                      origin[1], origin[2], None)]
    /\ UNCHANGED <<board, pc, game>>

FormatNext == FormatContent

FormatSpec == FormatInit /\ [][FormatNext]_vars

\* A payload without the escape byte.
EscapeFree(content) == \A i \in 1..Len(content) : content[i] # ESC

\* C19: for every width and height (of a rectangle: one or more columns and
\* lines), an escape-free Content string of exactly width * height characters
\* is formatted as exactly height positioning directives, for the rows y,
\* y + 1, ..., y + height - 1 at column x, each followed by exactly width
\* characters of the string in order, and one reset directive at the end.
C19_PlainExactFit ==
    (/\ ret.op = "get_content"
     /\ EscapeFree(ret.content)
     /\ Len(ret.content) = ret.width * ret.height)
    => /\ ret.val = Concat([k \in 1..ret.height |->
                              Goto(ret.x, ret.y + k - 1)
                              \o SubSeq(ret.content, (k - 1) * ret.width + 1,
                                        k * ret.width)])
                    \o StyleReset
       /\ GotoCount(ret.val) = ret.height

\* "ABCDEF" has been formatted into 3 columns by 2 lines at column 9, row 9.
C19_Witness ==
    /\ ret.op = "get_content"
    /\ ret.content = <<"A", "B", "C", "D", "E", "F">>
    /\ ret.width = 3
    /\ ret.height = 2
    /\ ret.val = <<ESC, "[", "9", ";", "9", "H", "A", "B", "C",
                   ESC, "[", "1", "0", ";", "9", "H", "D", "E", "F",
                   ESC, "[", "m">>

\* The number of printable graphemes of a payload from index i on: those
\* outside the directives, a directive being the graphemes from ESC to the
\* next "m".
RECURSIVE PrintableCount(_, _, _)
PrintableCount(content, i, in_directive) ==
    IF i > Len(content) THEN 0
    ELSE IF content[i] = ESC THEN PrintableCount(content, i + 1, TRUE)
    ELSE IF in_directive
    THEN PrintableCount(content, i + 1, content[i] # "m")
    ELSE 1 + PrintableCount(content, i + 1, FALSE)

\* An output without its positioning directives, from index k on.
RECURSIVE WithoutGoto(_, _)
WithoutGoto(out, k) ==
    IF k > Len(out) THEN <<>>
    ELSE IF out[k] = ESC /\ out[DirectiveEnd(out, k + 2)] = "H"
    THEN WithoutGoto(out, DirectiveEnd(out, k + 2) + 1)
    ELSE <<out[k]>> \o WithoutGoto(out, k + 1)

\* The writes that land in row y.
InRow(writes, y) == {k \in 1..Len(writes) : writes[k][2] = y}

\* C20, every payload: the output is positioning directives, a prefix of the
\* payload copied grapheme for grapheme, directives included, and the reset;
\* no line holds more than width printable graphemes, each within the
\* rectangle's columns; and when the payload has width * height printable
\* graphemes or more, every line of the rectangle holds exactly width,
\* however many directives lie between them.
C20_EveryPayload ==
    ret.op = "get_content"
    => \A writes \in {Writes(ret.val)}, copied \in {WithoutGoto(ret.val, 1)} :
          /\ Len(copied) >= Len(StyleReset)
          /\ SubSeq(copied, Len(copied) - Len(StyleReset) + 1, Len(copied)) = StyleReset
          /\ Len(copied) - Len(StyleReset) <= Len(ret.content)
          /\ SubSeq(copied, 1, Len(copied) - Len(StyleReset))
               = SubSeq(ret.content, 1, Len(copied) - Len(StyleReset))
          /\ \A k \in 1..Len(writes) :
                /\ writes[k][1] \in ret.x..(ret.x + ret.width - 1)
                /\ writes[k][2] \in ret.y..(ret.y + ret.height - 1)
          /\ \A y \in ret.y..(ret.y + ret.height - 1) :
                /\ Cardinality(InRow(writes, y)) <= ret.width
                /\ PrintableCount(ret.content, 1, FALSE) >= ret.width * ret.height
                   => Cardinality(InRow(writes, y)) = ret.width

\* C20, the example: "\x1b[31mAB\x1b[0mCD" formatted into two columns and two
\* lines or more writes "AB" on line one, in style 31, and "CD" on line two,
\* in style 0.
C20_Example ==
    (/\ ret.op = "get_content"
     /\ ret.content = StyledPayload
     /\ ret.width = 2
     /\ ret.height >= 2)
    => Writes(ret.val) = << <<ret.x, ret.y, "A", <<"3", "1">>>>,
                            <<ret.x + 1, ret.y, "B", <<"3", "1">>>>,
                            <<ret.x, ret.y + 1, "C", <<"0">>>>,
                            <<ret.x + 1, ret.y + 1, "D", <<"0">>>> >>

\* C20: in the content formatter the bytes of an escape sequence, from the
\* ESC byte through the terminating 'm', never count toward the per-line
\* width and are copied through verbatim: for every payload each emitted line
\* holds at most width printable units, and "\x1b[31mAB\x1b[0mCD" formatted
\* into a width-2 rectangle puts "AB" on line one and "CD" on line two.
C20_EscapesDoNotCount == C20_EveryPayload /\ C20_Example

\* "\x1b[31mAB\x1b[0mCD" has been formatted into 2 columns by 2 lines at the
\* screen's corner.
C20_Witness ==
    /\ ret.op = "get_content"
    /\ ret.content = StyledPayload
    /\ ret.width = 2
    /\ ret.height = 2
    /\ ret.val = <<ESC, "[", "1", ";", "1", "H", ESC, "[", "3", "1", "m", "A", "B",
                   ESC, "[", "2", ";", "1", "H", ESC, "[", "0", "m", "C", "D",
                   ESC, "[", "m">>

\* The targets <<x, y>> of the positioning directives of an output, in order,
\* from index k on.
RECURSIVE GotoTargets(_, _)
GotoTargets(out, k) ==
    IF k > Len(out) THEN <<>>
    ELSE IF out[k] = ESC /\ out[DirectiveEnd(out, k + 2)] = "H"
    THEN LET e == DirectiveEnd(out, k + 2)
             params == SubSeq(out, k + 2, e - 1)
             semi == CHOOSE i \in 1..Len(params) : params[i] = ";"
         IN  << <<Number(SubSeq(params, semi + 1, Len(params))),
                  Number(SubSeq(params, 1, semi - 1))>> >>
             \o GotoTargets(out, e + 1)
    ELSE GotoTargets(out, k + 1)

\* The printable graphemes of a payload from index i on, in order.
RECURSIVE Printables(_, _, _)
Printables(content, i, in_directive) ==
    IF i > Len(content) THEN <<>>
    ELSE IF content[i] = ESC THEN Printables(content, i + 1, TRUE)
    ELSE IF in_directive
    THEN Printables(content, i + 1, content[i] # "m")
    ELSE <<content[i]>> \o Printables(content, i + 1, FALSE)

\* C21: for every payload, the content formatter returns (it raises no
\* error) an output of at most height lines, positioned at column x on the
\* rows y, y + 1, ... in order and never below row y + height - 1; it writes
\* the leading printable units of the payload row by row into the rectangle,
\* width to a line, and nothing of the payload beyond width * height
\* printable units.
C21_AtMostHeightLines ==
    ret.op = "get_content"
    => /\ pc = "format"
       /\ \A writes \in {Writes(ret.val)}, gotos \in {GotoTargets(ret.val, 1)},
             printable \in {Printables(ret.content, 1, FALSE)} :
             /\ Len(gotos) \in 1..ret.height
             /\ \A k \in 1..Len(gotos) : gotos[k] = <<ret.x, ret.y + k - 1>>
             /\ Len(writes) <= ret.width * ret.height
             /\ Len(writes) <= Len(printable)
             /\ Len(printable) >= ret.width * ret.height
                => Len(writes) = ret.width * ret.height
             /\ \A k \in 1..Len(writes) :
                   /\ writes[k][1] = ret.x + ((k - 1) % ret.width)
                   /\ writes[k][2] = ret.y + ((k - 1) \div ret.width)
                   /\ writes[k][3] = printable[k]

\* "ABmA" has been formatted into 1 column by 2 lines: "A" and "B" are out,
\* on rows 9 and 10, and "mA" is dropped.
C21_Witness ==
    /\ ret.op = "get_content"
    /\ ret.content = <<"A", "B", "m", "A">>
    /\ ret.width = 1
    /\ ret.height = 2
    /\ ret.val = Goto(9, 9) \o <<"A">> \o Goto(9, 10) \o <<"B">> \o StyleReset

(***************************************************************************)
(* The formatter and the highlight transform on every variant of Cell:     *)
(* Cell::get_content of a cell, Cell::with_bg_color of the same cell for   *)
(* the same rectangle, and Cell::get_content of the highlighted cell.      *)
(***************************************************************************)
RESOURCE_TABLE_ERR_MSG ==
    "If you use Cell::ResourceId, you must add resource table to Board."

\* A resource table with a plain payload and a styled one.
CellResources == [id \in {1, 2} |-> IF id = 1 THEN <<"r", "s">> ELSE StyledPayload]

\* Payloads with a style reset of their own, before, between and after the
\* printable graphemes.
ResetPayloads ==
    {StyleReset \o <<"A", "B">>, <<"A">> \o StyleReset \o <<"B">>,
     <<"A", "B">> \o StyleReset}

\* The cells: every variant.
Cells ==
    {Empty, Char("X"), ResourceId(1), ResourceId(2)}
    \cup {Content(p) : p \in Payloads \cup ResetPayloads}

\* The resource tables a cell is formatted with: the table, and for a
\* ResourceId cell also none.
CellTables(cell) ==
    IF cell.kind = "ResourceId" THEN {None, Some(CellResources)}
    ELSE {Some(CellResources)}

CellInit ==
    /\ board = Board_new(1, 1, 1, 1, FALSE, None)
    /\ pc = "format"
    /\ ret = [op |-> "new", val |-> Unit]
    /\ game = Game_new

\* Cell::get_content of a cell of any variant.
CellGetContent ==
    /\ pc = "format"
    /\ ret.op = "new"
    /\ \E cell \in Cells, width \in 1..MaxWidth, height \in 1..MaxHeight,
          origin \in Origins :
          \E resources \in CellTables(cell) :
             /\ ret' = [op |-> "get_content", cell |-> cell, highlighted |-> FALSE,
                        width |-> width, height |-> height,
                        x |-> origin[1], y |-> origin[2], resources |-> resources,
                        val |-> IF ResourcePanics(cell, resources)
                                THEN RESOURCE_TABLE_ERR_MSG
                                ELSE get_content(cell, width, height,
                                                 origin[1], origin[2], resources)]
             /\ pc' = IF ResourcePanics(cell, resources) THEN "panicked" ELSE "format"
    /\ UNCHANGED <<board, game>>

\* Cell::with_bg_color of the cell that was formatted, for the same rectangle
\* (CellGrid::update_cell_bg_color passes the grid's cell size).  plain keeps
\* the output of the cell as it was.
CellWithBgColor ==
    /\ pc = "format"
    /\ ret.op = "get_content"
    /\ ~ret.highlighted
    /\ ret' = [op |-> "with_bg_color", cell |-> ret.cell,
               width |-> ret.width, height |-> ret.height,
               x |-> ret.x, y |-> ret.y, resources |-> ret.resources,
               plain |-> ret.val,
               val |-> with_bg_color(ret.cell, ret.width, ret.height, ret.resources)]
    /\ UNCHANGED <<board, pc, game>>

\* Cell::get_content of the highlighted cell, for the same rectangle.
\* original and plain keep the cell as it was and its output.
CellGetContentHighlighted ==
    /\ pc = "format"
    /\ ret.op = "with_bg_color"
    /\ ret' = [op |-> "get_content", cell |-> ret.val, highlighted |-> TRUE,
               width |-> ret.width, height |-> ret.height,
               x |-> ret.x, y |-> ret.y, resources |-> ret.resources,
               original |-> ret.cell, plain |-> ret.plain,
               val |-> get_content(ret.val, ret.width, ret.height, ret.x, ret.y,
                                   ret.resources)]
    /\ UNCHANGED <<board, pc, game>>

CellNext ==
    \/ CellGetContent
    \/ CellWithBgColor
    \/ CellGetContentHighlighted

CellSpec == CellInit /\ [][CellNext]_vars

\* An output ends with one reset directive: its last graphemes are the
\* reset, and the graphemes before it are not a reset as well.
EndsWithOneReset(out) ==
    /\ Len(out) >= Len(StyleReset)
    /\ SubSeq(out, Len(out) - Len(StyleReset) + 1, Len(out)) = StyleReset
    /\ Len(out) >= 2 * Len(StyleReset)
       => SubSeq(out, Len(out) - 2 * Len(StyleReset) + 1, Len(out) - Len(StyleReset))
            # StyleReset

\* The style in force after an output, from index k on with the style given:
\* the parameters of the last style directive, none after a reset.
RECURSIVE StyleAfter(_, _, _)
StyleAfter(out, k, style) ==
    IF k > Len(out) THEN style
    ELSE IF out[k] = ESC
    THEN LET e == DirectiveEnd(out, k + 2)
         IN  StyleAfter(out, e + 1, IF out[e] = "m" THEN SubSeq(out, k + 2, e - 1)
                                    ELSE style)
    ELSE StyleAfter(out, k + 1, style)

\* The number of style directives in an output.
StyleCount(out) ==
    Cardinality({k \in 1..Len(out) :
                   out[k] = ESC /\ out[DirectiveEnd(out, k + 2)] = "m"})

\* C22 as stated: the formatted output of every cell, whatever its variant
\* (Empty, Char, ResourceId or Content), ends with exactly one
\* reset-all-styles directive.
C22_EveryVariantEndsWithReset ==
    (ret.op = "get_content" /\ pc = "format") => EndsWithOneReset(ret.val)

\* C22, amended: the formatted output of a ResourceId or Content cell ends
\* with exactly one reset-all-styles directive; the formatted output of an
\* Empty or Char cell holds no style directive at all, no reset either, only
\* positioning directives and the fill character; so for every variant no
\* style opened by one cell's output is still active when the next cell's
\* output begins.
C22_ResetAfterPayloads ==
    (ret.op = "get_content" /\ pc = "format")
    => /\ ret.cell.kind \in {"ResourceId", "Content"} => EndsWithOneReset(ret.val)
       /\ ret.cell.kind \in {"Empty", "Char"}
          => /\ StyleCount(ret.val) = 0
             /\ GotoCount(ret.val) = ret.height
             /\ Len(ret.val) = Len(WithoutGoto(ret.val, 1))
                                 + Len(Concat([k \in 1..ret.height |->
                                                 Goto(ret.x, ret.y + k - 1)]))
             /\ WithoutGoto(ret.val, 1)
                  = Repeat(<<IF ret.cell.kind = "Char" THEN ret.cell.ch ELSE " ">>,
                           ret.width * ret.height)
       /\ StyleAfter(ret.val, 1, <<>>) = <<>>
       /\ StyleAfter(ret.val, 1, <<"7">>)
            = IF ret.cell.kind \in {"Empty", "Char"} THEN <<"7">> ELSE <<>>

\* The resource "\x1b[31mAB\x1b[0mCD" has been formatted into 2 columns by 2
\* lines: the output ends with the reset, after the style 0 of the payload.
C22_Witness ==
    /\ ret.op = "get_content"
    /\ pc = "format"
    /\ ret.cell = ResourceId(2)
    /\ ret.width = 2
    /\ ret.height = 2
    /\ ret.val = Goto(1, 1) \o Sgr(<<"3", "1">>) \o <<"A", "B">>
                 \o Goto(1, 2) \o Sgr(<<"0">>) \o <<"C", "D">> \o StyleReset

\* The effective content of a cell for a rectangle: what fills it.
EffectiveContent(cell, width, height, resources) ==
    CASE cell.kind = "Empty" -> Repeat(<<" ">>, width * height)
      [] cell.kind = "Char" -> Repeat(<<cell.ch>>, width * height)
      [] cell.kind = "ResourceId" -> resources[1][cell.id]
      [] cell.kind = "Content" -> cell.s

\* The writes of an output without their styles: <<x, y, grapheme>>.
Unstyled(writes) ==
    [k \in 1..Len(writes) |-> <<writes[k][1], writes[k][2], writes[k][3]>>]

\* C23, the transform: the highlighted variant of a cell of any variant is a
\* Content cell, one background-colour directive followed by the cell's
\* effective content.
C23_Transform ==
    ret.op = "with_bg_color"
    => /\ ret.val.kind = "Content"
       /\ ret.val.s = ColorBg \o EffectiveContent(ret.cell, ret.width, ret.height,
                                                  ret.resources)
       /\ StyleCount(ret.val.s)
            = 1 + StyleCount(EffectiveContent(ret.cell, ret.width, ret.height,
                                              ret.resources))

\* C23, the formatting: the output of the highlighted cell positions on the
\* same lines as the output of the cell as it was, and writes the same
\* graphemes at the same coordinates of the rectangle.
C23_SameText ==
    (ret.op = "get_content" /\ ret.highlighted)
    => /\ GotoTargets(ret.val, 1) = GotoTargets(ret.plain, 1)
       /\ Unstyled(Writes(ret.val)) = Unstyled(Writes(ret.plain))
       /\ \A writes \in {Writes(ret.val)} :
             \A k \in 1..Len(writes) :
                /\ writes[k][1] \in ret.x..(ret.x + ret.width - 1)
                /\ writes[k][2] \in ret.y..(ret.y + ret.height - 1)

\* C23: the highlight transform maps every Cell variant to a Content cell
\* made of one background-color directive followed by the cell's effective
\* content (width * height copies of the space or character for Empty/Char,
\* the payload string for ResourceId/Content), so that formatting the
\* highlighted cell yields the same printable text on the same lines of the
\* same rectangle as formatting the original cell.
C23_HighlightKeepsText == C23_Transform /\ C23_SameText

\* Char 'X' has been formatted into 2 columns by 2 lines, highlighted, and
\* formatted again: the same four X on the same two lines, after the
\* background directive.
C23_Witness ==
    /\ ret.op = "get_content"
    /\ ret.highlighted
    /\ ret.original = Char("X")
    /\ ret.width = 2
    /\ ret.height = 2
    /\ ret.plain = Goto(9, 9) \o <<"X", "X">> \o Goto(9, 10) \o <<"X", "X">>
    /\ ret.val = Goto(9, 9) \o ColorBg \o <<"X", "X">> \o Goto(9, 10) \o <<"X", "X">>
                 \o StyleReset

(***************************************************************************)
(* The two full repaints of Board::get_updates.                            *)
(***************************************************************************)
\* The step is the first repaint query, the full repaint of Game::init, on a
\* board of 1x1 cells without cell borders: the linear scan.
LinearScanStep ==
    /\ ret'.op = "init"
    /\ pc' = "run"
    /\ board.cell_width = 1
    /\ board.cell_height = 1
    /\ ~board.cell_borders

\* The number of printable units a cell displays in a rectangle of its own.
UnitsOf(b, cell) ==
    PrintableCount(EffectiveContent(cell, b.cell_width, b.cell_height, b.resources),
                   1, FALSE)

\* C24 as stated: the output of the linear scan is byte-identical to the
\* output the per-cell path would produce for the same grid.
C24_ByteIdentical ==
    [][LinearScanStep => ret'.val[1] = full_repaint_cells(board)]_vars

\* C24, the step: the linear scan positions once per row where the per-cell
\* path positions once per cell; the outputs are equal byte for byte on a
\* grid of one column whose cells each display one unit; they write the same
\* graphemes in the same styles at the same coordinates when every cell
\* displays one unit; and the linear scan writes more than the per-cell path
\* when a payload holds more than one unit, as it copies the payload whole.
C24_Step ==
    LinearScanStep
    => \A linear \in {ret'.val[1]}, general \in {full_repaint_cells(board)} :
          /\ GotoCount(linear) = board.rows
          /\ GotoCount(general) = board.rows * board.columns
          /\ (\A i \in 1..Len(board.grid.cells) : UnitsOf(board, board.grid.cells[i]) = 1)
             => /\ Writes(linear) = Writes(general)
                /\ board.columns = 1 => linear = general
                /\ board.columns > 1 => linear # general
          /\ (\E i \in 1..Len(board.grid.cells) : UnitsOf(board, board.grid.cells[i]) > 1)
             => Len(Writes(linear)) > Len(Writes(general))

\* C24, amended: for a board with 1x1 cells and inter-cell borders disabled,
\* the full repaint of the linear scan writes the same graphemes, in the same
\* styles, at the same coordinates as the per-cell path would for the same
\* grid, whenever every cell displays exactly one printable unit (Empty,
\* Char, their highlighted variants, a payload of one unit).  The bytes are
\* the same only on a grid of one column: the scan positions once per row,
\* the per-cell path once per cell.  A payload of more than one unit is
\* copied whole by the scan and cut to one unit by the per-cell path, and
\* there the two differ on the screen as well.
C24_SameScreen == [][C24_Step]_vars

\* The linear scan has painted a row of two cells, a Char under the cursor
\* and a Char beside it, with one positioning directive.
C24_Witness ==
    /\ ret.op = "init"
    /\ pc = "run"
    /\ board.columns = 2
    /\ board.cell_width = 1
    /\ ~board.cell_borders
    /\ board.cursor # None
    /\ board.cursor[1].position = Position(0, 0)
    /\ ret.val = Some(Goto(2, 2) \o ColorBg \o <<"X">> \o StyleReset \o <<"X">>)

(***************************************************************************)
(* The dialog: Game::show_message, the repaint queries of the loop while   *)
(* the dialog is shown, Game::hide_message, on boards of one cell whose    *)
(* size gives the board its width and height in characters.                *)
(***************************************************************************)
\* The cell sizes <<cell_width, cell_height>>.  The board is two characters
\* wider and higher than its cell: 3 wide (less than the 8 the dialog
\* subtracts), 8 wide, and up to 8 + MaxWidth; 3 high, 8 high, and up to
\* 8 + MaxLine.
DialogSizes == ({1} \cup 6..(6 + MaxWidth)) \X ({1} \cup 6..(6 + MaxLine))

\* The lines of a dialog: an empty line, lines without a marker, lines with
\* the centre and the right marker.
DialogLines ==
    {<<>>, <<"a", "b">>, <<"a", "b", "c", "d">>,
     TEXT_ALIGN_CENTER \o <<"a">>, TEXT_ALIGN_RIGHT \o <<"a">>,
     TEXT_ALIGN_RIGHT \o <<"a", "b", "c", "d">>}

\* The arguments of show_message: up to MaxHeight lines.
DialogMessages == UNION {[1..k -> DialogLines] : k \in 0..MaxHeight}

DialogInit ==
    /\ \E size \in DialogSizes : board = Board_new(1, 1, size[1], size[2], FALSE, None)
    /\ pc = "setup"
    /\ ret = [op |-> "new", val |-> Unit]
    /\ game = Game_new

\* Game::init of the board.
DialogGameInit == Game_init

\* Game::show_message, while no dialog is shown; ret keeps the lines.
DialogShowMessage ==
    /\ pc = "run"
    /\ board.message_lines = None
    /\ \E lines \in DialogMessages :
          /\ board' = Board_show_message(board, lines)
          /\ ret' = [op |-> "show_message", val |-> Unit, lines |-> lines]
    /\ UNCHANGED <<pc, game>>

\* The repaint query of Game::start; ret keeps whether the build checks
\* overflow.
DialogGetUpdates ==
    /\ pc = "run"
    /\ ret.op # "get_updates"
    /\ \E checks \in OverflowChecks :
          LET o == Board_get_updates(board, <<>>, checks)
          IN  /\ board' = o.board
              /\ ret' = [op |-> "get_updates", val |-> o.ret, checks |-> checks]
              /\ pc' = IF o.panicked THEN "panicked" ELSE "run"
              /\ UNCHANGED game

\* Game::hide_message, while a dialog is shown.
DialogHideMessage ==
    /\ board.message_lines # None
    /\ HideMessage

DialogNext ==
    \/ DialogGameInit
    \/ DialogShowMessage
    \/ DialogGetUpdates
    \/ DialogHideMessage

DialogSpec == DialogInit /\ [][DialogNext]_vars

\* The step is a repaint query made while a dialog of one line or more is
\* shown.
DialogQuery ==
    /\ ret'.op = "get_updates"
    /\ board.message_lines # None
    /\ board.message_lines[1] # <<>>

\* The columns and the rows an output writes to.
Columns(writes) == {writes[k][1] : k \in 1..Len(writes)}

Rows(writes) == {writes[k][2] : k \in 1..Len(writes)}

\* C25, the step: the query returns the rendering of a box of the stated
\* width and height, every coordinate of it written once, centred on the
\* board and inside it.
C25_Step ==
    DialogQuery
    => /\ pc' = "run"
       /\ ret'.val # None
       /\ \A writes \in {Writes(ret'.val[1])} :
             LET lines == board.message_lines[1]
                 dlg_w == Min(line_max_len(lines), board.width - 8) + 4
                 dlg_h == Min(Len(lines), board.height - 8) + 4
                 box_x == board.position[1] + ((board.width - dlg_w) \div 2)
                 box_y == board.position[2] + ((board.height - dlg_h) \div 2)
             IN  /\ dlg_w <= board.width
                 /\ dlg_h <= board.height
                 /\ Columns(writes) = box_x..(box_x + dlg_w - 1)
                 /\ Rows(writes) = box_y..(box_y + dlg_h - 1)
                 /\ Len(writes) = dlg_w * dlg_h
                 /\ \A x \in Columns(writes), y \in Rows(writes) :
                       \E k \in 1..Len(writes) : writes[k][1] = x /\ writes[k][2] = y

\* C25: for every board size and every non-empty list of dialog lines, a
\* repaint query while the dialog is shown succeeds and renders a box of
\* width min(longest line length, board width - 8) + 4 and height
\* min(line count, board height - 8) + 4, centered on the board and never
\* larger than the board; lines beyond the height budget are ignored.
C25_DialogBox == [][C25_Step]_vars

\* The graphemes an output writes in row y, left to right as written.
RECURSIVE RowText(_, _, _)
RowText(writes, y, k) ==
    IF k > Len(writes) THEN <<>>
    ELSE (IF writes[k][2] = y THEN <<writes[k][3]>> ELSE <<>>)
         \o RowText(writes, y, k + 1)

\* The text a dialog line shows in an interior of inner columns: the line
\* without its marker, padded as the marker says when it is shorter and cut
\* to inner when it is not.
ShownText(line, inner) ==
    LET text == IF starts_with(line, TEXT_ALIGN_CENTER) \/ starts_with(line, TEXT_ALIGN_RIGHT)
                THEN SubSeq(line, 4, Len(line)) ELSE line
        pad == inner - Len(text)
    IN  IF Len(text) >= inner THEN SubSeq(text, 1, inner)
        ELSE IF starts_with(line, TEXT_ALIGN_CENTER)
        THEN Repeat(<<" ">>, pad \div 2) \o text \o Repeat(<<" ">>, pad - (pad \div 2))
        ELSE IF starts_with(line, TEXT_ALIGN_RIGHT) THEN Repeat(<<" ">>, pad) \o text
        ELSE text \o Repeat(<<" ">>, pad)

\* C26, the step: in the rendering a query returns, each row starts with a
\* positioning directive; the dialog width is the width of the top border
\* row; the text rows are the rows from the third to the third from last,
\* one per line in order; each is the border, a space, the shown text of its
\* line in exactly the interior width, a space, and the border.
C26_Step ==
    (DialogQuery /\ pc' = "run")
    => \A writes \in {Writes(ret'.val[1])}, gotos \in {GotoTargets(ret'.val[1], 1)} :
          LET lines == board.message_lines[1]
              dlg_w == Len(RowText(writes, gotos[1][2], 1))
              dlg_h == Len(gotos)
          IN  /\ dlg_h >= 4
              /\ dlg_h - 4 <= Len(lines)
              /\ \A i \in 1..(dlg_h - 4) :
                    RowText(writes, gotos[2 + i][2], 1)
                      = <<DOUBLE_BORDER_VERT_LINE, " ">> \o ShownText(lines[i], dlg_w - 4)
                        \o <<" ", DOUBLE_BORDER_VERT_LINE>>

\* C26: every text row of the dialog occupies exactly the interior width
\* (dialog width - 4) in printable columns: a line shorter than the interior
\* width is padded according to its leading marker ("|^|" centered, "|>|"
\* right-aligned, no marker left-aligned) with the marker removed from the
\* displayed text, and a line at least as long as the interior width is
\* truncated to exactly the interior width.
C26_TextRows == [][C26_Step]_vars

(***************************************************************************)
(* The lifecycle of the Game (src/src/game.rs): init, start, stop, pause   *)
(* and resume, called by the application before and after Game::start      *)
(* (pc = "setup") and by its listener from inside the loop of Game::start  *)
(* (pc = "run"), on a row of MaxLine + 1 cells with a cursor that does not *)
(* wrap.                                                                   *)
(***************************************************************************)
\* The board the application hands to Game::init.
GameBoard ==
    Board_init_from_str(Board_new(MaxLine + 1, 1, 1, 1, FALSE, None),
                        Repeat(<<"X">>, MaxLine + 1),
                        Some(Cursor_new(Position(0, 0), FALSE))).board

\* The keys of the input: one the cursor consumes at the left edge, one that
\* moves it or is consumed at the right edge, and two it does not handle.
GameKeys == {"Left", "Right", "q", "p"}

\* The keys the listener passes to pause.
ResumeKeys == {"p", "Right"}

\* A call of a lifecycle operation; key is the argument of pause.
LifecycleCall(name, key) == [name |-> name, key |-> key]

NoCall == LifecycleCall("none", None)

\* The lifecycle operations the application or its listener may call.
LifecycleCalls ==
    {LifecycleCall(n, None) : n \in {"init", "start", "stop", "resume"}}
    \cup {LifecycleCall("pause", Some(k)) : k \in ResumeKeys}

\* The state check and the state change of a call.
Game_call(g, call) ==
    CASE call.name = "init" -> Game_init_state(g)
      [] call.name = "start" -> Game_start_state(g)
      [] call.name = "stop" -> Game_stop(g)
      [] call.name = "pause" -> Game_pause(g, call.key[1])
      [] call.name = "resume" -> Game_resume(g)
      [] OTHER -> GameOutcome(g, FALSE)

\* A dispatch that offers the resume key of a paused game to the board.
Game_dispatch_offering_to_board(g, b, key) ==
    IF g.state = "Paused" /\ g.resume_key # Some(key)
    THEN [board |-> b, to_board |-> FALSE, callback |-> "none", arg |-> None,
          panicked |-> FALSE]
    ELSE LET o == Board_handle_key(b, key)
         IN  [board |-> o.board, to_board |-> TRUE,
              callback |-> IF g.state = "Paused" THEN "handle_key"
                           ELSE IF o.ret = NotHandled THEN "handle_key"
                           ELSE IF o.ret.kind = "NewPosition" THEN "cursor_moved"
                           ELSE "none",
              arg |-> IF g.state = "Paused" \/ o.ret = NotHandled THEN Some(key)
                      ELSE IF o.ret.kind = "NewPosition" THEN Some(o.ret.pos)
                      ELSE None,
              panicked |-> o.panicked]

\* A dispatch that hands a key that moved the cursor to handle_key.
Game_dispatch_moves_to_handle_key(g, b, key) ==
    IF g.state = "Paused"
    THEN [board |-> b, to_board |-> FALSE,
          callback |-> IF g.resume_key # None /\ key = g.resume_key[1]
                       THEN "handle_key" ELSE "none",
          arg |-> IF g.resume_key # None /\ key = g.resume_key[1]
                  THEN Some(key) ELSE None,
          panicked |-> FALSE]
    ELSE LET o == Board_handle_key(b, key)
         IN  [board |-> o.board, to_board |-> TRUE,
              callback |-> IF o.ret = Consumed THEN "none" ELSE "handle_key",
              arg |-> IF o.ret = Consumed THEN None ELSE Some(key),
              panicked |-> o.panicked]

\* The dispatch of a key in the loop of Game::start: whether the key is
\* offered to the board, the board that leaves, and the callback of the
\* listener that is called, if any, with its argument (the key of
\* handle_key, the position of cursor_moved).
Game_dispatch(g, b, key) ==
    IF g.state = "Paused"
    THEN [board |-> b, to_board |-> FALSE,
          callback |-> IF g.resume_key # None /\ key = g.resume_key[1]
                       THEN "handle_key" ELSE "none",
          arg |-> IF g.resume_key # None /\ key = g.resume_key[1]
                  THEN Some(key) ELSE None,
          panicked |-> FALSE]
    ELSE LET o == Board_handle_key(b, key)
         IN  [board |-> o.board, to_board |-> TRUE,
              callback |-> IF o.ret = NotHandled THEN "handle_key"
                           ELSE IF o.ret.kind = "NewPosition" THEN "cursor_moved"
                           ELSE "none",
              arg |-> IF o.ret = NotHandled THEN Some(key)
                      ELSE IF o.ret.kind = "NewPosition" THEN Some(o.ret.pos)
                      ELSE None,
              panicked |-> o.panicked]

GameInit ==
    /\ board = GameBoard
    /\ pc = "setup"
    /\ ret = [op |-> "new", val |-> Unit]
    /\ game = Game_new

\* A lifecycle operation called by the application, outside Game::start.
\* Game::init takes a new board, lays it out and writes the first repaint;
\* Game::start enters its loop.
GameCall ==
    /\ pc = "setup"
    /\ \E call \in LifecycleCalls, checks \in OverflowChecks :
          LET o == Game_call(game, call)
              painted == Board_get_updates(
                             set_position(GameBoard, Position(SCREEN_LEFT, SCREEN_TOP)),
                             <<>>, checks)
              init == call.name = "init" /\ ~o.panicked
          IN  /\ game' = IF init /\ painted.panicked THEN game ELSE o.game
              /\ board' = IF init THEN painted.board ELSE board
              /\ ret' = [op |-> "call", call |-> call,
                         val |-> IF init THEN painted.ret ELSE Unit]
              /\ pc' = IF o.panicked \/ (init /\ painted.panicked) THEN "panicked"
                       ELSE IF call.name = "start" THEN "run"
                       ELSE "setup"

\* One turn of the loop of Game::start: a key is read and dispatched, the
\* listener, when called, calls one lifecycle operation or none, and the
\* board is asked for its updates.  The loop ends, and Game::start returns,
\* when the state is no longer Started or Paused.
GameKey ==
    /\ pc = "run"
    /\ \E key \in GameKeys, choice \in LifecycleCalls \cup {NoCall},
          checks \in OverflowChecks :
          \E d \in {Game_dispatch(game, board, key)} :
             \E call \in {IF d.callback = "none" \/ d.panicked THEN NoCall ELSE choice} :
                \E o \in {Game_call(game, call)}, order \in Orders(d.board.grid.updates) :
                   \E u \in {Board_get_updates(d.board, order, checks)} :
                      /\ game' = o.game
                      /\ board' = IF d.panicked \/ o.panicked THEN d.board ELSE u.board
                      /\ ret' = [op |-> "key", key |-> key, to_board |-> d.to_board,
                                 callback |-> d.callback, arg |-> d.arg,
                                 call |-> call,
                                 val |-> IF d.panicked \/ o.panicked THEN Unit ELSE u.ret]
                      /\ pc' = IF d.panicked \/ o.panicked \/ u.panicked THEN "panicked"
                               ELSE IF o.game.state \in {"Started", "Paused"} THEN "run"
                               ELSE "setup"

\* The input ends: self.input.next() is None, the loop breaks and
\* Game::start returns with the state as it is.
GameInputEnds ==
    /\ pc = "run"
    /\ ret' = [op |-> "input_end", val |-> Unit]
    /\ pc' = "setup"
    /\ UNCHANGED <<board, game>>

GameNext ==
    \/ GameCall
    \/ GameKey
    \/ GameInputEnds

GameSpec == GameInit /\ [][GameNext]_vars

\* The states a lifecycle operation is accepted in.
AcceptedIn(name) ==
    CASE name = "init" -> {"Created", "Stopped"}
      [] name = "start" -> {"Initialized", "Stopped"}
      [] name \in {"stop", "pause"} -> {"Started"}
      [] name = "resume" -> {"Paused"}

\* The state an accepted lifecycle operation leaves.
StateAfter(name) ==
    CASE name = "init" -> "Initialized"
      [] name \in {"start", "resume"} -> "Started"
      [] name = "stop" -> "Stopped"
      [] name = "pause" -> "Paused"

\* C27, the step: a lifecycle operation called in one of its documented
\* states returns and leaves the state it documents (pause with the resume
\* key stored); called in any other state it panics and the state and the
\* resume key stay as they were; and a step without a lifecycle call leaves
\* both as they were.
C27_Step ==
    /\ (ret'.op \in {"call", "key"} /\ ret'.call # NoCall)
       => IF game.state \in AcceptedIn(ret'.call.name)
          THEN /\ pc' # "panicked"
               /\ game'.state = StateAfter(ret'.call.name)
               /\ ret'.call.name = "pause" => game'.resume_key = ret'.call.key
          ELSE /\ pc' = "panicked"
               /\ game' = game
    /\ (ret'.op \in {"key", "input_end"} /\ (ret'.op = "key" => ret'.call = NoCall))
       => game' = game

C28_Step ==
    /\ (ret'.op = "key" /\ game.state = "Paused")
       => /\ game.resume_key # None
          /\ ~ret'.to_board
          /\ board'.cursor = board.cursor
          /\ board'.grid.cells = board.grid.cells
          /\ ret'.callback = IF ret'.key = game.resume_key[1] THEN "handle_key"
                             ELSE "none"
          /\ ret'.key # game.resume_key[1] => ret'.call = NoCall
    /\ (game.state = "Paused" /\ game'.state # "Paused")
       => /\ ret'.op \in {"call", "key"}
          /\ ret'.call.name = "resume"
          /\ game'.state = "Started"

\* C28: while the game is Paused, no key other than the stored resume key
\* reaches the listener and no key (the resume key included) is passed to
\* the board's cursor; the resume key is delivered to the listener's
\* handle_key, and the state stays Paused until the listener calls resume().
C28_Paused == [][C28_Step]_vars

\* A game paused with the resume key Right, a key that moves the cursor, has
\* read Right: the listener was called and did not resume, the cursor is
\* where it was, at the left edge, and the game is still Paused.
C28_Witness ==
    /\ pc = "run"
    /\ ret.op = "key"
    /\ ret.key = "Right"
    /\ ret.callback = "handle_key"
    /\ ret.call = NoCall
    /\ ~ret.to_board
    /\ game.state = "Paused"
    /\ game.resume_key = Some("Right")
    /\ board.cursor[1].position = Position(0, 0)

(***************************************************************************)
(* The board under a dialog, and the frame of a targeted update (Spec).    *)
(***************************************************************************)
\* A step that begins and ends with the dialog shown leaves every cell of
\* the grid and the cursor as they were.
C29_Step ==
    (DialogShown(board) /\ DialogShown(board'))
    => /\ board'.grid.cells = board.grid.cells
       /\ board'.cursor = board.cursor

\* C29: while a dialog is shown the grid is frozen: no operation changes a
\* grid cell value or the cursor position until the dialog is hidden
\* (targeted updates are fatal, key handling leaves grid and cursor
\* untouched).
C29_GridFrozen == [][C29_Step]_vars

\* The indices a batch of update_cells addresses.
BatchIndices(grid, updates) ==
    {get_cell_pos(grid, updates[i][2]) : i \in DOMAIN updates}

\* The cell the batch leaves at index idx: the last one it writes there.
LastWritten(grid, updates, idx) ==
    LET at == {i \in DOMAIN updates : get_cell_pos(grid, updates[i][2]) = idx}
    IN  updates[CHOOSE i \in at : \A j \in at : j <= i][1]

\* What the board holds at index idx after the batch: the cell written, in
\* its highlighted form where the cursor stands.
HeldAfter(b, updates, idx) ==
    LET cell == LastWritten(b.grid, updates, idx)
    IN  IF b.cursor # None /\ get_cell_pos(b.grid, b.cursor[1].position) = idx
        THEN with_bg_color(cell, b.grid.cell_width, b.grid.cell_height,
                           b.grid.resources)
        ELSE cell

\* A batch of in-range updates that returned: the cells at its indices are
\* replaced, its indices join the dirty set, and every other cell, every
\* other dirty entry and the grid's update-all flag are as before.
C30_UpdateStep ==
    (ret'.op = "update_cells" /\ pc' = "run")
    => \E updates \in Batches(board) :
          LET idxs == BatchIndices(board.grid, updates)
          IN  /\ board'.grid.updates = board.grid.updates \cup idxs
              /\ \A i \in DOMAIN updates :
                    updates[i][2][1] < board.columns /\ updates[i][2][2] < board.rows
              /\ \A idx \in 0..(Len(board.grid.cells) - 1) :
                    board'.grid.cells[idx + 1] =
                        IF idx \in idxs THEN HeldAfter(board, updates, idx)
                        ELSE board.grid.cells[idx + 1]
              /\ Len(board'.grid.cells) = Len(board.grid.cells)
              /\ board'.grid.update_all = board.grid.update_all

\* A repaint query that completes (no dialog shown, no panic) empties the
\* dirty set, lowers the flag and changes no cell.
C30_CompleteStep ==
    (ret'.op \in {"get_updates", "init"} /\ pc' = "run" /\ ~DialogShown(board))
    => /\ board'.grid.updates = {}
       /\ ~board'.grid.update_all
       /\ board'.grid.cells = board.grid.cells

\* C30: a targeted update at an in-range Position replaces only the cell at
\* that position and adds only that index to the dirty set, leaving every
\* other cell and dirty entry unchanged; the completion operation clears
\* dirtiness without changing any cell value, and updates after it
\* accumulate dirtiness starting from the empty set.
C30_FrameOfUpdate == [][C30_UpdateStep /\ C30_CompleteStep]_vars

\* After a completed repaint (both update-all flags are down) one update on
\* a grid of two cells returned: the dirty set is that index alone, and the
\* other cell is still clean.
C30_Witness ==
    /\ pc = "run"
    /\ ret.op = "update_cells"
    /\ Len(board.grid.cells) = 2
    /\ Cardinality(board.grid.updates) = 1
    /\ ~board.grid.update_all
    /\ ~board.update_all
    /\ board.cursor = None

(***************************************************************************)
(* The information area (InfoSpec): Game::init with an Info lays board and *)
(* area out and paints both; Game::start then queries both after every     *)
(* key.  game.info is the area the Game holds.                             *)
(***************************************************************************)
\* The boards handed to Game::init.
InfoBoards ==
    {Board_new(c[1], c[2], c[3], c[4], c[5], None) : c \in BoardConfigs}

\* The size argument of Info::new.
InfoSizes == 0..MaxWidth

InfoLayouts == {"Left", "Right", "Top", "Bottom"}

\* The lines of an information area: empty, shorter and longer than the
\* text widths tried, and one with a grapheme cluster of two code points.
InfoLines ==
    {<<>>, <<"a">>, <<"a", "b">>, <<"a", "b", "c", "d">>, <<COMBINED>>}

\* The lines argument of Info::new: up to MaxHeight lines.
InfoMessages == UNION {[1..k -> InfoLines] : k \in 0..MaxHeight}

InfoInit ==
    /\ board \in InfoBoards
    /\ pc = "setup"
    /\ ret = [op |-> "new", val |-> Unit]
    /\ game = Game_new

\* Game::init(board, Some(info)): layout, the board's border and first
\* repaint, the area's border and its lines.
InfoGameInit ==
    /\ pc = "setup"
    /\ \E size \in InfoSizes, layout \in InfoLayouts, lines \in InfoMessages,
          checks \in OverflowChecks :
          LET laid == Game_layout(board, Some(Info_new(size, layout, lines)))
              o == Board_get_updates(laid.board, <<>>, checks)
              u == Info_get_updates(laid.info[1], checks)
              panicked == o.panicked \/ u.panicked
          IN  /\ board' = o.board
              /\ game' = [game EXCEPT !.info = laid.info,
                                      !.state = IF panicked THEN @
                                                ELSE "Initialized"]
              /\ ret' = [op |-> "init", val |-> u.text, checks |-> checks,
                         border |-> Info_get_border(laid.info[1])]
              /\ pc' = IF panicked THEN "panicked" ELSE "run"

\* Game::start on the initialized game.
InfoStart ==
    /\ pc = "run"
    /\ game.state = "Initialized"
    /\ game' = Game_start_state(game).game
    /\ ret' = [op |-> "start", val |-> Unit]
    /\ UNCHANGED <<board, pc>>

\* The repaint queries that end an iteration of the loop of Game::start: the
\* board's, then the information area's.
InfoGetUpdates ==
    /\ pc = "run"
    /\ game.state = "Started"
    /\ \E checks \in OverflowChecks :
          LET o == Board_get_updates(board, <<>>, checks)
              u == Info_get_updates(game.info[1], checks)
          IN  /\ board' = o.board
              /\ ret' = [op |-> "get_updates", val |-> u.text, checks |-> checks]
              /\ pc' = IF o.panicked \/ u.panicked THEN "panicked" ELSE "run"
              /\ UNCHANGED game

InfoNext ==
    \/ InfoGameInit
    \/ InfoStart
    \/ InfoGetUpdates

InfoSpec == InfoInit /\ [][InfoNext]_vars

\* A line in w columns: padded with spaces, or cut to w graphemes.
PaddedOrCut(line, w) ==
    IF Len(line) < w THEN line \o Repeat(<<" ">>, w - Len(line))
    ELSE SubSeq(line, 1, w)

\* The rows of the area: for each of the height - 2 rows inside the border
\* one positioning directive to the first column inside the border, then
\* width - 2 columns, line i or blanks.
PanelRows(info) ==
    Concat([i \in 1..(info.height - 2) |->
              Goto(info.position[1] + 1, info.position[2] + i)
              \o (IF i <= Len(info.lines)
                  THEN PaddedOrCut(info.lines[i], info.width - 2)
                  ELSE Repeat(<<" ">>, info.width - 2))])

C31_Step ==
    ret'.op \in {"init", "get_updates"}
    => /\ pc' # "panicked"
       /\ ret'.val = IF game'.info[1].lines = <<>> THEN None
                     ELSE Some(PanelRows(game'.info[1]))

\* C31: the information panel's repaint returns no output when it has no
\* lines; otherwise it emits exactly height - 2 rows on consecutive terminal
\* rows inside the panel border, each exactly width - 2 columns wide: row i
\* shows line i padded with spaces or truncated to that width, rows past the
\* last line are blank, and lines beyond the panel height are ignored.
C31_PanelRows == [][C31_Step]_vars

\* The character rectangle of a board or an area: its columns and its rows.
RectColumns(r) == r.position[1]..(r.position[1] + r.width - 1)

RectRows(r) == r.position[2]..(r.position[2] + r.height - 1)

\* The area sits against the board on the side its layout names.
Adjacent(b, info) ==
    CASE info.layout = "Left" ->
             info.position[1] + info.width = b.position[1]
             /\ info.position[2] = b.position[2]
      [] info.layout = "Right" ->
             b.position[1] + b.width = info.position[1]
             /\ info.position[2] = b.position[2]
      [] info.layout = "Top" ->
             info.position[2] + info.height = b.position[2]
             /\ info.position[1] = b.position[1]
      [] info.layout = "Bottom" ->
             b.position[2] + b.height = info.position[2]
             /\ info.position[1] = b.position[1]

\* C35: for every InfoLayout (Left, Right, Top, Bottom), layout places the
\* board and the information panel so that their rectangles are adjacent
\* and never overlap: the panel takes size + 2 characters along the
\* layout's axis and the board's size along the other axis, and both start
\* within the screen at coordinates >= 1.
C35_Layout ==
    game.info # None
    => LET info == game.info[1]
       IN  /\ Adjacent(board, info)
           /\ (RectColumns(board) \cap RectColumns(info) = {}
               \/ RectRows(board) \cap RectRows(info) = {})
           /\ IF info.layout \in {"Left", "Right"}
              THEN info.width = info.size /\ info.height = board.height
              ELSE info.height = info.size /\ info.width = board.width
           /\ info.size \in {size + 2 : size \in InfoSizes}
           /\ \A i \in 1..2 : board.position[i] >= 1 /\ info.position[i] >= 1

\* A panel of size 1 laid out to the left of a board: it takes columns 1 to
\* 3 and the board begins at column 4, on the same rows.
C35_Witness ==
    /\ game.info # None
    /\ game.info[1].layout = "Left"
    /\ game.info[1].width = 3
    /\ game.info[1].position = Position(1, 1)
    /\ board.position = Position(4, 1)
    /\ game.info[1].height = board.height

(***************************************************************************)
(* The geometry of the board (GeometrySpec): every grid of up to           *)
(* MaxLine + 1 rows and columns, every cell size up to MaxWidth x          *)
(* MaxHeight, with and without lines between the cells, laid out by        *)
(* Game::init alone or next to an information area.                        *)
(***************************************************************************)
GeometryBoards ==
    {Board_new(columns, rows, cell_width, cell_height, cell_borders, None) :
        columns \in 1..(MaxLine + 1), rows \in 1..(MaxLine + 1),
        cell_width \in 1..MaxWidth, cell_height \in 1..MaxHeight,
        cell_borders \in BOOLEAN}

\* The information areas the board is laid out with.
GeometryInfos ==
    {None, Some(Info_new(1, "Left", <<<<"a">>>>)), Some(Info_new(1, "Top", <<>>))}

GeometryInit ==
    /\ board \in GeometryBoards
    /\ pc = "setup"
    /\ ret = [op |-> "new", val |-> Unit]
    /\ game = Game_new

\* Game::init: layout, the board's border and first repaint, the area's
\* border and lines.
GeometryGameInit ==
    /\ pc = "setup"
    /\ \E info \in GeometryInfos, checks \in OverflowChecks :
          LET laid == Game_layout(board, info)
              o == Board_get_updates(laid.board, <<>>, checks)
              u == IF info = None THEN [panicked |-> FALSE, text |-> None]
                   ELSE Info_get_updates(laid.info[1], checks)
              panicked == o.panicked \/ u.panicked
          IN  /\ board' = o.board
              /\ game' = [game EXCEPT !.info = laid.info,
                                      !.state = IF panicked THEN @
                                                ELSE "Initialized"]
              /\ ret' = [op |-> "init", val |-> o.ret,
                         border |-> get_border(laid.board)]
              /\ pc' = IF panicked THEN "panicked" ELSE "run"

GeometryNext == GeometryGameInit

GeometrySpec == GeometryInit /\ [][GeometryNext]_vars

\* The offsets <<w, h>> of the board's character area.
Area(b) == (0..(b.width - 1)) \X (0..(b.height - 1))

\* The cells whose rectangle holds the offset <<w, h>>: those whose mapped
\* top-left coordinate is at most cell_width - 1 columns to the left of it
\* and at most cell_height - 1 rows above it.
CellsAt(b, w, h) ==
    {idx \in 0..(b.rows * b.columns - 1) :
        LET tl == get_cell_top_left(b, idx)
        IN  /\ b.position[1] + w \in tl[1]..(tl[1] + b.cell_width - 1)
            /\ b.position[2] + h \in tl[2]..(tl[2] + b.cell_height - 1)}

OnFrame(b, w, h) == w = 0 \/ h = 0 \/ w = b.width - 1 \/ h = b.height - 1

\* C32: for every rows, columns, cell size and border setting, the board's
\* width x height character area is partitioned: each position is either a
\* border glyph position (outer frame always; interior lines and crosses
\* exactly on cell boundaries and only when inter-cell borders are enabled)
\* or belongs to exactly one cell's rectangle as given by the
\* index-to-coordinate mapping; no cell rectangle overlaps a glyph, another
\* cell, or leaves the outer frame.
C32_Partition ==
    /\ \A p \in Area(board) :
          /\ get_border_char(board, p[1], p[2]) # None
             => CellsAt(board, p[1], p[2]) = {}
          /\ get_border_char(board, p[1], p[2]) = None
             => Cardinality(CellsAt(board, p[1], p[2])) = 1
          /\ OnFrame(board, p[1], p[2]) => get_border_char(board, p[1], p[2]) # None
          /\ (~OnFrame(board, p[1], p[2]) /\ ~board.cell_borders)
             => get_border_char(board, p[1], p[2]) = None
          /\ (~OnFrame(board, p[1], p[2]) /\ board.cell_borders)
             => (get_border_char(board, p[1], p[2]) = Some(SINGLE_BORDER_CROSS)
                 <=> (CellsAt(board, p[1] - 1, p[2] - 1) # {}
                      /\ CellsAt(board, p[1] + 1, p[2] + 1) # {}
                      /\ CellsAt(board, p[1], p[2]) = {}
                      /\ CellsAt(board, p[1] - 1, p[2]) = {}
                      /\ CellsAt(board, p[1], p[2] - 1) = {}))
    /\ \A idx \in 0..(board.rows * board.columns - 1) :
          LET tl == get_cell_top_left(board, idx)
          IN  /\ tl[1] - board.position[1] >= 1
              /\ tl[2] - board.position[2] >= 1
              /\ tl[1] - board.position[1] + board.cell_width <= board.width - 1
              /\ tl[2] - board.position[2] + board.cell_height <= board.height - 1

\* A 2 x 2 grid of cells 2 wide and 1 high with lines between them, laid out
\* below an information area: the board is 7 x 5 characters at (1, 4), the
\* glyph in its middle is the cross, and the offset right of the cross's row
\* start belongs to no cell while the one below it belongs to cell 2.
C32_Witness ==
    /\ pc = "run"
    /\ board.columns = 2 /\ board.rows = 2
    /\ board.cell_width = 2 /\ board.cell_height = 1
    /\ board.cell_borders
    /\ board.position = Position(1, 4)
    /\ board.width = 7 /\ board.height = 5
    /\ get_border_char(board, 3, 2) = Some(SINGLE_BORDER_CROSS)
    /\ CellsAt(board, 1, 2) = {}
    /\ CellsAt(board, 1, 3) = {2}

(***************************************************************************)
(* A move of the cursor and the repaint that follows it (Spec).            *)
(***************************************************************************)
\* The index of the cell the cursor of board b stands on.
CursorIndex(b) == get_cell_pos(b.grid, b.cursor[1].position)

\* A key that moved the cursor to another position: the old cell is the
\* remembered original again, the new cell is the highlighted form of what
\* was there, no other cell changed, and the two indices joined the dirty
\* set; whatever position a key reports is the cursor's.
C33_Move ==
    (Returns("handle_key", "run") /\ CursorInv(board)
     /\ ret'.val.kind = "NewPosition")
    => /\ ret'.val.pos = board'.cursor[1].position
       /\ board'.cursor[1].position # board.cursor[1].position
          => /\ board'.grid.cells[CursorIndex(board) + 1]
                  = board.cursor[1].original_cell
             /\ board'.grid.cells[CursorIndex(board') + 1]
                  = with_bg_color(board.grid.cells[CursorIndex(board') + 1],
                                  board.cell_width, board.cell_height,
                                  board.resources)
             /\ \A idx \in Indices(board) \ {CursorIndex(board), CursorIndex(board')} :
                   board'.grid.cells[idx + 1] = board.grid.cells[idx + 1]
             /\ board'.grid.updates
                  = board.grid.updates \cup {CursorIndex(board), CursorIndex(board')}
             /\ Clean(board) => Cardinality(board'.grid.updates) = 2

\* The repaint query after such a move from a clean board (the dirty set is
\* the cursor's cell and one other): the output paints those two cells and
\* writes nothing else, the cursor's cell highlighted and the other not.
C33_Query ==
    (/\ ret'.op = "get_updates"
     /\ board.message_lines = None /\ ~board.update_all /\ ~board.grid.update_all
     /\ CursorInv(board)
     /\ Cardinality(board.grid.updates) = 2
     /\ CursorIndex(board) \in board.grid.updates)
    => /\ Repainted
       /\ \A writes \in {Writes(ret'.val[1])} :
             /\ Len(writes) = 2 * board.cell_width * board.cell_height
             /\ \A idx \in board.grid.updates :
                   /\ PaintsCell(writes, board, idx)
                   /\ IsHighlighted(board.grid.cells[idx + 1])
                        <=> idx = CursorIndex(board)
             /\ \A k \in 1..Len(writes) :
                   writes[k][4] = ColorBgParams
                   <=> <<writes[k][1], writes[k][2]>>
                         \in {Rect(board, CursorIndex(board))[j] :
                                j \in 1..(board.cell_width * board.cell_height)}

\* C33: an actual cursor move writes the remembered original back to the old
\* position, highlights the new position and marks exactly those two
\* positions dirty, so starting from a clean board the next repaint query
\* emits exactly the old cell (unhighlighted) and the new cell
\* (highlighted); the reported NewPosition equals the cursor's new position.
C33_MoveThenRepaint == [][C33_Move /\ C33_Query]_vars

\* A key has moved the cursor on a board with nothing else to repaint: the
\* key reported the cursor's position, the dirty set is the cursor's cell and
\* the cell it left, and that cell is the Char "X" again.
C33_Witness ==
    /\ pc = "run"
    /\ ret.op = "handle_key"
    /\ ret.val.kind = "NewPosition"
    /\ CursorInv(board)
    /\ ret.val.pos = board.cursor[1].position
    /\ board.message_lines = None /\ ~board.update_all /\ ~board.grid.update_all
    /\ Cardinality(board.grid.updates) = 2
    /\ CursorIndex(board) \in board.grid.updates
    /\ \E idx \in board.grid.updates \ {CursorIndex(board)} :
          board.grid.cells[idx + 1] = Char("X")

(***************************************************************************)
(* The loop of Game::start in the Started state (GameSpec).                *)
(***************************************************************************)
\* The keys of the input that get_direction_default maps to a direction.
DirectionKeys == {key \in GameKeys : get_direction_default(key) # None}

\* A key read in the Started state is offered to the board.  A key that is
\* no direction reaches handle_key with that key and moves nothing; a
\* direction key that moves the cursor reaches cursor_moved with the
\* cursor's position; one that is blocked at the edge reaches no callback.
\* Then the board is asked for its updates: unless a callback panicked, the
\* step ends on a board with nothing left to repaint, and it returned output
\* exactly when the key moved the cursor or a repaint was pending.
C34_Step ==
    (ret'.op = "key" /\ game.state = "Started")
    => /\ ret'.to_board
       /\ ret'.callback \in {"handle_key", "cursor_moved", "none"}
       /\ ret'.key \notin DirectionKeys
          => /\ ret'.callback = "handle_key"
             /\ ret'.arg = Some(ret'.key)
             /\ board'.cursor = board.cursor
       /\ (ret'.key \in DirectionKeys
           /\ board'.cursor[1].position # board.cursor[1].position)
          => /\ ret'.callback = "cursor_moved"
             /\ ret'.arg = Some(board'.cursor[1].position)
       /\ (ret'.key \in DirectionKeys
           /\ board'.cursor[1].position = board.cursor[1].position)
          => /\ ret'.callback = "none"
             /\ ret'.arg = None
             /\ board'.grid.cells = board.grid.cells
       /\ ret'.callback = "none" => ret'.call = NoCall
       /\ pc' # "panicked"
          => /\ Clean(board')
             /\ ret'.val # None
                <=> (board'.cursor[1].position # board.cursor[1].position
                     \/ ~Clean(board))

\* C34: in the Started state each key is offered to the board's cursor first
\* and exactly one outcome follows: NotHandled invokes the listener's
\* handle_key with that key, NewPosition(p) invokes only cursor_moved(p),
\* and Consumed invokes no listener callback; a repaint query of the board
\* is made after the key is processed and before the next key is read.
C34_Dispatch == [][C34_Step]_vars

\* The key Right has moved the cursor of a started game from the first cell
\* to the second: cursor_moved was called with Position(1, 0), and the query
\* that followed returned the repaint of the two cells.
C34_Witness ==
    /\ pc = "run"
    /\ game.state = "Started"
    /\ ret.op = "key"
    /\ ret.key = "Right"
    /\ ret.to_board
    /\ ret.callback = "cursor_moved"
    /\ ret.arg = Some(Position(1, 0))
    /\ board.cursor[1].position = Position(1, 0)
    /\ ret.val # None
    /\ Clean(board)

\* The turns of the loop begin in the Started or the Paused state, and a
\* step in which Game::start returns ends in the Stopped state.
C36_Step ==
    /\ (pc = "run" /\ ret'.op \in {"key", "input_end"})
       => game.state \in {"Started", "Paused"}
    /\ (pc = "run" /\ pc' = "setup") => game'.state = "Stopped"

\* C36: the input loop of start() runs only while the state is Started or
\* Paused, and whenever start() returns the game state is Stopped.
C36_StoppedOnReturn == [][C36_Step]_vars

(***************************************************************************)
(* A bulk initializer run again on a board with a cursor (Spec).           *)
(***************************************************************************)
\* An initializer that returns on a board that already has a cursor leaves
\* the cursor invariant, with the original the cell the call wrote at the
\* cursor's position.
C37_Step ==
    (/\ ret'.op \in {"init_from_vec", "init_from_str"}
     /\ pc' = "setup"
     /\ board.cursor # None)
    => /\ CursorInv(board')
       /\ board'.cursor[1].original_cell = ret'.cells[CursorIndex(board') + 1]

\* C37: running a bulk initializer again on a board that already has a
\* cursor keeps the cursor invariant: whether or not the call supplies a new
\* cursor, afterwards exactly the attached cursor's position holds
\* highlighted content and its remembered original is that position's
\* freshly initialized value.
C37_ReinitKeepsCursor == [][C37_Step]_vars

(***************************************************************************)
(* Payloads that do not fill the rectangle (FormatSpec).                   *)
(***************************************************************************)
\* The graphemes an output writes, in order.
WrittenGraphemes(out) ==
    LET writes == Writes(out) IN [k \in 1..Len(writes) |-> writes[k][3]]

\* C38: for a Content or ResourceId payload with fewer than width * height
\* printable units, the content formatter emits every printable unit of the
\* payload, including a final line that is shorter than width.
C38_ShortPayloadWhole ==
    (/\ ret.op = "get_content"
     /\ PrintableCount(ret.content, 1, FALSE) < ret.width * ret.height)
    => WrittenGraphemes(ret.val) = Printables(ret.content, 1, FALSE)

(***************************************************************************)
(* Targeted updates at positions beyond the grid (RangeSpec): boards of    *)
(* 1x1 cells without a cursor, updated at every position of the grid and   *)
(* at those one column or one row beyond it.                               *)
(***************************************************************************)
\* The positions a listener passes: Position is a pair of usize, the grid's
\* own positions and the first column and the first row outside it.
RangePositions(b) == (0..b.columns) \X (0..b.rows)

\* The batches of update_cells: one update.
RangeBatches(b) == {<<u>> : u \in CellValues \X RangePositions(b)}

RangeInit ==
    /\ \E g \in GridSizes : board = Board_new(g[1], g[2], 1, 1, FALSE, None)
    /\ pc = "setup"
    /\ ret = [op |-> "new", val |-> Unit]
    /\ game = Game_new

\* Board::init_from_vec of the new board, without a cursor.
RangeInitFromVec ==
    /\ pc = "setup"
    /\ ret.op = "new"
    /\ \E cells \in CellVectors(board) :
          CallInit("init_from_vec", Board_init_from_vec(board, cells, None),
                   cells, None)

\* Game::init of the initialized board.
RangeGameInit ==
    /\ ret.op = "init_from_vec"
    /\ Game_init

\* Game::update_cells; ret keeps the batch with the result.
RangeUpdateCells ==
    /\ pc = "run"
    /\ \E updates \in RangeBatches(board) :
          LET o == Board_update_cells(board, updates)
          IN  /\ board' = o.board
              /\ ret' = [op |-> "update_cells", val |-> o.ret, updates |-> updates]
              /\ pc' = IF o.panicked THEN "panicked" ELSE "run"
              /\ UNCHANGED game

\* The repaint query of Game::start.
RangeGetUpdates == GetUpdates

RangeNext ==
    \/ RangeInitFromVec
    \/ RangeGameInit
    \/ RangeUpdateCells
    \/ RangeGetUpdates

RangeSpec == RangeInit /\ [][RangeNext]_vars

\* The cell of the grid in column p[1] of row p[2], read by row and column.
CellInRowColumn(b, p) == b.grid.cells[p[2] * b.columns + p[1] + 1]

\* An update at a position of the grid changes no cell but the one in that
\* column of that row; an update at a position outside the grid changes no
\* cell at all.
C39_Step ==
    ret'.op = "update_cells"
    => LET p == ret'.updates[1][2]
       IN  IF p[1] < board.columns /\ p[2] < board.rows
           THEN /\ pc' = "run"
                /\ CellInRowColumn(board', p) = ret'.updates[1][1]
                /\ \A q \in Positions(board) \ {p} :
                      CellInRowColumn(board', q) = CellInRowColumn(board, q)
           ELSE board'.grid.cells = board.grid.cells

\* C39: update_cells changes only the cell whose (column, row) equals the
\* given Position: a Position with column >= columns or row >= rows never
\* modifies any cell of the grid.
C39_OnlyTheAddressedCell == [][C39_Step]_vars

(***************************************************************************)
(* The full repaint of 1x1 cells without cell borders (SetupSpec).         *)
(***************************************************************************)
\* The first repaint of such a board writes one grapheme for each cell, in
\* the order of the grid, each at the coordinate its index maps to: the
\* first printable unit of what the cell displays.
C40_Step ==
    LinearScanStep
    => \A writes \in {Writes(ret'.val[1])} :
          /\ Len(writes) = Len(board.grid.cells)
          /\ \A i \in 1..Len(board.grid.cells) :
                /\ <<writes[i][1], writes[i][2]>> = get_cell_top_left(board', i - 1)
                /\ writes[i][3]
                     = Printables(EffectiveContent(board.grid.cells[i], 1, 1,
                                                   board.resources), 1, FALSE)[1]

\* C40: in a full repaint of a board with 1x1 cells and no inter-cell
\* borders, every cell contributes exactly one printable column, so each
\* cell's value lands on its own mapped coordinate; a Content or ResourceId
\* payload longer than one printable unit is cut to the 1x1 rectangle and
\* never shifts the cells that follow it in the row.
C40_OneColumnPerCell == [][C40_Step]_vars

=============================================================================
